---- MODULE Spec2Model ----
(***************************************************************************)
(* Model of the admission core of rate_limiter_service                     *)
(* (src/src/models/rate_limiter.py): SlidingWindowLog, TenantLoadManager   *)
(* with its background scheduler and workers, and the DistributedRate-     *)
(* Limiter facade.                                                         *)
(*                                                                         *)
(* Time is counted in ticks of 1/Scale second, so that int(...) in the     *)
(* source is a real floor and not the identity.  window_duration_seconds   *)
(* is in whole seconds, i.e. W * Scale ticks.                              *)
(***************************************************************************)
EXTENDS Integers, Sequences, FiniteSets, Bags, TLC

\* ---------------------------------------------------------------- bounds
Scale == 3                 \* clock ticks per second
MaxTime == 6               \* last tick of the clock when the log is used on its own
StatusMaxTime == 4         \* last tick of the clock when status calls are made as well
MaxDirectReleases == 2     \* direct release_processing_slot calls in one run
FacadeQueueSize == 1       \* max_tenant_queue_size when the facade is used
LMQueueSize == 2           \* max_tenant_queue_size when the load manager is used directly

Tenants == {"A", "B"}
Clients == {"c1"}
ActionTypes == {"a1"}
Keys == Tenants \X Clients \X ActionTypes
Threads == {1, 2}
GateSaturationThreads == {1, 2, 3}   \* the three simultaneous callers of scenario S5
UnderLoadThreads == {1, 2, 3}        \* callers of the facade under load
ConcurrentThreads == {1, 2, 3}       \* threads calling the SlidingWindowLog at once
AllThreads == Threads \cup GateSaturationThreads \cup ConcurrentThreads \cup UnderLoadThreads
GateSaturationLimit == 3   \* max_requests generous enough to admit the three calls
Limits == {1, 2}           \* max_requests values
Windows == {1, 2}          \* window_duration_seconds values
HistoryKeys == {<<"A", "c1", "a1">>}   \* keys whose admissions are recorded
FacadeLimits == {1}
FacadeWindows == {1}
\* constructor arguments (max_global_concurrent_requests, max_tenant_queue_size)
FacadeConfigs == {<<1, FacadeQueueSize>>}
LMConfigs == {<<1, LMQueueSize>>}

UnderLoadLimit == 2        \* max_requests of the calls made under load, fewer than the callers
\* gates from narrower than the rate limit up to as wide as it
UnderLoadConfigs == {<<G, FacadeQueueSize>> : G \in 1..UnderLoadLimit}

PROCESSED == "processed"
QUEUED == "queued"
REJECTED == "rejected"
NoReset == -1              \* reset_time_seconds = None

VARIABLES
    now,               \* time.time(), in ticks
    request_logs,      \* SlidingWindowLog._request_logs : key -> deque of timestamps
    max_global_concurrent_requests,   \* TenantLoadManager field (G)
    max_tenant_queue_size,            \* TenantLoadManager field (Q)
    global_in_flight,  \* TenantLoadManager._global_in_flight
    tenant_in_flight,  \* TenantLoadManager._tenant_in_flight
    tenant_queues,     \* TenantLoadManager._tenant_queues (values)
    queue_keys,        \* insertion order of the keys of _tenant_queues
    shutdown_flag,     \* TenantLoadManager._shutdown
    sched,             \* position of _process_queued_requests
    workers,           \* bag of running _execute_queued_request threads
    pc,                \* position of each caller of the facade
    args,              \* arguments of the facade call in progress
    result,            \* value the facade call returns
    saw,               \* what the call observed at its acquire / enqueue step, and
                       \* whether shutdown() had been called when it started
    admitted_by,       \* history: the admissions of a key with the policy of each
    admitted,          \* history: timestamps SlidingWindowLog admitted, per key
    policies,          \* history: policies SlidingWindowLog was called with, per key
    swl_lock,          \* SlidingWindowLog._lock: 0 when free, otherwise the thread holding it
    swl_calls,         \* the direct check_and_consume calls threads make concurrently:
                       \* position, arguments, local current_count and result of each
    last_call,         \* the last direct SlidingWindowLog.check_and_consume call:
                       \* its arguments, its clock value and what it returned
    last_status,       \* what the last SlidingWindowLog.get_status returned, forgotten
                       \* at the next check_and_consume
    skipped,           \* history: dispatches of u while t's queue stayed non-empty
    releases_left,     \* budget of direct release_processing_slot calls
    tenant_configs,    \* ConfigurationManager._tenant_configs: tenant -> TenantConfig
    config_lookup,     \* the last get_rate_limit_config call and what it returned
    last_set_action,   \* history: per (tenant, action) the action limit last set, if still set
    last_set_client,   \* history: per (tenant, client, action) the client limit last set, if still set
    last_removed,      \* history: the client limit the last operation removed
    lock_holder,       \* the thread inside each RLock of the TenantLoadManager:
                       \* _global_lock and _tenant_locks[t]
    fsched,            \* the background thread, statement by statement
    lm_calls,          \* the threads calling into the TenantLoadManager, statement by
                       \* statement
    http               \* per handler thread of the check_and_consume route: the
                       \* request body and the response code (0 while the limiter is
                       \* still to answer)

\* DistributedRateLimiter._pending_results is written by the facade's callback and
\* read nowhere; what a worker hands to the callback is kept in the worker's `res`.

cfgVars == <<max_global_concurrent_requests, max_tenant_queue_size>>
lockVars == <<swl_lock, swl_calls>>
swlVars == <<request_logs, admitted, admitted_by, policies, last_call, last_status, lockVars>>
histVars == <<admitted, admitted_by, policies, last_call, last_status, lockVars>>
gateVars == <<global_in_flight, tenant_in_flight>>
queueVars == <<tenant_queues, queue_keys>>
schedVars == <<sched, workers, skipped>>
callVars == <<pc, args, result, saw>>
fineVars == <<lock_holder, fsched, lm_calls>>
confVars == <<tenant_configs, config_lookup, last_set_action, last_set_client, last_removed>>
vars == <<now, swl_lock, swl_calls, request_logs, admitted, admitted_by, policies, last_call, last_status, max_global_concurrent_requests,
          max_tenant_queue_size, global_in_flight, tenant_in_flight,
          tenant_queues, queue_keys, shutdown_flag, sched, workers,
          skipped, pc, args, result, saw, releases_left, http, lock_holder, fsched,
          lm_calls, tenant_configs,
          config_lookup, last_set_action, last_set_client, last_removed>>

\* ---------------------------------------------------------------- data
RateLimitResult(allowed, remaining, reset, status) ==
    [allowed |-> allowed, remaining_requests |-> remaining,
     reset_time_seconds |-> reset, status |-> status]

QueuedRequest(k, N, W, ts, cb) ==
    [tenant_id |-> k[1], client_id |-> k[2], action_type |-> k[3],
     max_requests |-> N, window_duration_seconds |-> W,
     timestamp |-> ts, result_callback |-> cb]

KeyOf(req) == <<req.tenant_id, req.client_id, req.action_type>>

NoArgs == [key |-> <<"", "", "">>, max_requests |-> 0, window_duration_seconds |-> 0]
NoResult == RateLimitResult(FALSE, 0, NoReset, "none")
NoSaw == [gate_free |-> FALSE, queue_len |-> -1, shutdown |-> FALSE]

\* int(x) of a time x given in ticks: whole seconds, rounded down
IntSeconds(ticks) == ticks \div Scale

\* ---------------------------------------------------------------- SlidingWindowLog
\* mutant of Prune: the loop stops after the first stale timestamp
PruneHeadOnly(log, window_start) ==
    IF log # <<>> /\ Head(log) <= window_start THEN Tail(log) ELSE log

\* mutant of Prune: a timestamp exactly one window old is kept
RECURSIVE PruneStrict(_, _)
PruneStrict(log, window_start) ==
    IF log # <<>> /\ Head(log) < window_start
    THEN PruneStrict(Tail(log), window_start)
    ELSE log

RECURSIVE Prune(_, _)
Prune(log, window_start) ==
    IF log # <<>> /\ Head(log) <= window_start
    THEN Prune(Tail(log), window_start)
    ELSE log

\* mutant of Admits: one request too many is let through
AdmitsOffByOne(current_count, N) == current_count <= N

\* `if current_count < max_requests`
Admits(current_count, N) == current_count < N

\* mutant of CheckAndConsume: an allowed call reports the slot it just used as remaining
CheckAndConsumeCountsItself(log, N, W, current_time) ==
    LET window_start == current_time - W * Scale
        request_log == Prune(log, window_start)
        current_count == Len(request_log)
    IN  IF Admits(current_count, N)
        THEN [log |-> Append(request_log, current_time),
              result |-> RateLimitResult(TRUE, N - current_count,
                                         IntSeconds(current_time + W * Scale), PROCESSED)]
        ELSE [log |-> request_log,
              result |-> RateLimitResult(FALSE, 0,
                             IntSeconds((IF request_log # <<>> THEN Head(request_log)
                                         ELSE current_time) + W * Scale), PROCESSED)]

\* mutant of CheckAndConsume: a denied call computes its reset time from the
\* current time instead of the oldest timestamp
CheckAndConsumeResetFromNow(log, N, W, current_time) ==
    LET window_start == current_time - W * Scale
        request_log == Prune(log, window_start)
        current_count == Len(request_log)
    IN  IF Admits(current_count, N)
        THEN [log |-> Append(request_log, current_time),
              result |-> RateLimitResult(TRUE, N - current_count - 1,
                                         IntSeconds(current_time + W * Scale), PROCESSED)]
        ELSE [log |-> request_log,
              result |-> RateLimitResult(FALSE, 0,
                             IntSeconds(current_time + W * Scale), PROCESSED)]

\* mutant of CheckAndConsume: a denied call cuts the log down to max_requests entries
CheckAndConsumeTrimsSurplus(log, N, W, current_time) ==
    LET window_start == current_time - W * Scale
        request_log == Prune(log, window_start)
        current_count == Len(request_log)
    IN  IF Admits(current_count, N)
        THEN [log |-> Append(request_log, current_time),
              result |-> RateLimitResult(TRUE, N - current_count - 1,
                                         IntSeconds(current_time + W * Scale), PROCESSED)]
        ELSE [log |-> SubSeq(request_log, current_count - N + 1, current_count),
              result |-> RateLimitResult(FALSE, 0,
                             IntSeconds((IF request_log # <<>> THEN Head(request_log)
                                         ELSE current_time) + W * Scale), PROCESSED)]

\* SlidingWindowLog.check_and_consume as a function of the key's log:
\* the log it leaves and the result it returns.
CheckAndConsume(log, N, W, current_time) ==
    LET window_start == current_time - W * Scale
        request_log == Prune(log, window_start)
        current_count == Len(request_log)
    IN  IF Admits(current_count, N)
        THEN [log |-> Append(request_log, current_time),
              result |-> RateLimitResult(TRUE, N - current_count - 1,
                                         IntSeconds(current_time + W * Scale), PROCESSED)]
        ELSE [log |-> request_log,
              result |-> RateLimitResult(FALSE, 0,
                             IntSeconds((IF request_log # <<>> THEN Head(request_log)
                                         ELSE current_time) + W * Scale), PROCESSED)]

\* mutant of ValidTimestamps: a timestamp exactly one window old still counts
ValidTimestampsClosed(log, window_start) ==
    SelectSeq(log, LAMBDA ts : ts >= window_start)

\* `[ts for ts in request_log if ts > window_start]`
ValidTimestamps(log, window_start) ==
    SelectSeq(log, LAMBDA ts : ts > window_start)

\* the dict SlidingWindowLog.get_status returns
GetStatus(k, log, N, W, current_time) ==
    LET window_start == current_time - W * Scale
        valid_timestamps == ValidTimestamps(log, window_start)
        current_count == Len(valid_timestamps)
        remaining == IF N - current_count > 0 THEN N - current_count ELSE 0
    IN  [tenant_id |-> k[1], client_id |-> k[2], action_type |-> k[3],
         current_count |-> current_count, max_requests |-> N,
         remaining_requests |-> remaining, window_duration_seconds |-> W,
         timestamps |-> valid_timestamps, window_start |-> window_start,
         current_time |-> current_time]

\* no direct call made yet
NoCall == [key |-> <<"", "", "">>, max_requests |-> 0, window_duration_seconds |-> 0,
           current_time |-> -1, pruned |-> 0, result |-> NoResult]

\* no get_status result at hand
NoStatus == GetStatus(<<"", "", "">>, <<>>, 0, 0, -1)

\* mutant of SlidingWindowCall: the log is kept per client and action, whatever the tenant
SlidingWindowCallAcrossTenants(k, N, W) ==
    request_logs' = [k2 \in Keys |->
                        IF k2[2] = k[2] /\ k2[3] = k[3]
                        THEN CheckAndConsume(request_logs[k2], N, W, now).log
                        ELSE request_logs[k2]]

\* The state change of one SlidingWindowLog.check_and_consume call (under _lock).
SlidingWindowCall(k, N, W) ==
    /\ swl_lock = 0
    /\ request_logs' = [request_logs EXCEPT ![k] = CheckAndConsume(@, N, W, now).log]

\* A caller uses the SlidingWindowLog directly.  The history variables record
\* what was admitted and with which policies.
SWL_check_and_consume(k, N, W) ==
    /\ SlidingWindowCall(k, N, W)
    /\ admitted' = IF k \in HistoryKeys
                      /\ CheckAndConsume(request_logs[k], N, W, now).result.allowed
                   THEN [admitted EXCEPT ![k] = Append(@, now)]
                   ELSE admitted
    /\ policies' = IF k \in HistoryKeys
                   THEN [policies EXCEPT ![k] = @ \cup {<<N, W>>}]
                   ELSE policies
    /\ last_status' = NoStatus
    /\ UNCHANGED admitted_by
    /\ UNCHANGED <<cfgVars, confVars, fineVars, http, now, last_call, lockVars, gateVars, queueVars, shutdown_flag,
                   schedVars, callVars, releases_left>>

\* A caller uses the SlidingWindowLog directly; each admission is recorded with
\* the policy of its call.
SWL_check_and_consume_policy(k, N, W) ==
    /\ SlidingWindowCall(k, N, W)
    /\ admitted_by' =
          IF CheckAndConsume(request_logs[k], N, W, now).result.allowed
          THEN [admitted_by EXCEPT ![k] = Append(@, [timestamp |-> now, max_requests |-> N,
                                                     window_duration_seconds |-> W])]
          ELSE admitted_by
    /\ UNCHANGED <<cfgVars, confVars, fineVars, http, now, admitted, policies, last_call,
                   last_status, lockVars, gateVars, queueVars, shutdown_flag, schedVars,
                   callVars, releases_left>>

\* A caller uses the SlidingWindowLog directly and keeps what the call returned.
SWL_check_and_consume_returns(k, N, W) ==
    /\ SlidingWindowCall(k, N, W)
    /\ last_call' = [key |-> k, max_requests |-> N, window_duration_seconds |-> W,
                     current_time |-> now,
                     pruned |-> Len(request_logs[k])
                                  - Len(Prune(request_logs[k], now - W * Scale)),
                     result |-> CheckAndConsume(request_logs[k], N, W, now).result]
    /\ last_status' = NoStatus
    /\ UNCHANGED <<cfgVars, confVars, fineVars, http, now, admitted, admitted_by, policies, lockVars, gateVars, queueVars,
                   shutdown_flag, schedVars, callVars, releases_left>>

\* mutant of SWL_get_status: the status call prunes the log as check_and_consume does
SWL_get_status_prunes(k, N, W) ==
    /\ last_status' = GetStatus(k, request_logs[k], N, W, now)
    /\ request_logs' = [request_logs EXCEPT ![k] = Prune(@, now - W * Scale)]
    /\ UNCHANGED <<cfgVars, confVars, fineVars, http, now, admitted, admitted_by, policies, last_call, lockVars, gateVars,
                   queueVars, shutdown_flag, schedVars, callVars, releases_left>>

\* SlidingWindowLog.get_status (under _lock): a read of the key's log
SWL_get_status(k, N, W) ==
    /\ swl_lock = 0
    /\ last_status' = GetStatus(k, request_logs[k], N, W, now)
    /\ UNCHANGED <<cfgVars, confVars, fineVars, http, now, request_logs, admitted, admitted_by, policies, last_call, lockVars,
                   gateVars, queueVars, shutdown_flag, schedVars, callVars, releases_left>>

\* ---- check_and_consume thread by thread, statement by statement

NoSwlCall == [pc |-> "idle", key |-> <<"", "", "">>, max_requests |-> 0,
              window_duration_seconds |-> 0, current_count |-> 0, result |-> NoResult]

\* mutant of SWLT_lock: the body is entered without _lock
SWLT_lock_not_taken(th, k, N, W) ==
    /\ swl_calls[th].pc = "idle"
    /\ swl_lock' = th
    /\ swl_calls' = [swl_calls EXCEPT ![th] =
           [NoSwlCall EXCEPT !.pc = "check", !.key = k, !.max_requests = N,
                             !.window_duration_seconds = W]]
    /\ UNCHANGED <<cfgVars, confVars, fineVars, http, now, request_logs, admitted, admitted_by, policies, last_call, last_status,
                   gateVars, queueVars, shutdown_flag, schedVars, callVars, releases_left>>

\* `with self._lock:` a thread enters the body when no other thread holds the lock
SWLT_lock(th, k, N, W) ==
    /\ swl_calls[th].pc = "idle"
    /\ swl_lock = 0
    /\ swl_lock' = th
    /\ swl_calls' = [swl_calls EXCEPT ![th] =
           [NoSwlCall EXCEPT !.pc = "check", !.key = k, !.max_requests = N,
                             !.window_duration_seconds = W]]
    /\ UNCHANGED <<cfgVars, confVars, fineVars, http, now, request_logs, admitted, admitted_by, policies, last_call, last_status,
                   gateVars, queueVars, shutdown_flag, schedVars, callVars, releases_left>>

\* the pruning loop (popleft changes the stored deque) and `current_count = len(request_log)`
SWLT_check(th) ==
    /\ swl_calls[th].pc = "check"
    /\ LET c == swl_calls[th]
           request_log == Prune(request_logs[c.key], now - c.window_duration_seconds * Scale)
       IN  /\ request_logs' = [request_logs EXCEPT ![c.key] = request_log]
           /\ swl_calls' = [swl_calls EXCEPT ![th].pc = "consume",
                                             ![th].current_count = Len(request_log)]
    /\ UNCHANGED <<cfgVars, confVars, fineVars, http, now, swl_lock, admitted, admitted_by, policies, last_call, last_status,
                   gateVars, queueVars, shutdown_flag, schedVars, callVars, releases_left>>

\* `if current_count < max_requests:` append and return allowed, `else` return
\* denied; the return leaves the `with` block and gives the lock back
SWLT_consume(th) ==
    /\ swl_calls[th].pc = "consume"
    /\ LET c == swl_calls[th]
           N == c.max_requests
           W == c.window_duration_seconds
           request_log == request_logs[c.key]
       IN  IF Admits(c.current_count, N)
           THEN /\ request_logs' = [request_logs EXCEPT ![c.key] = Append(@, now)]
                /\ swl_calls' = [swl_calls EXCEPT ![th].pc = "done", ![th].result =
                       RateLimitResult(TRUE, N - c.current_count - 1,
                                       IntSeconds(now + W * Scale), PROCESSED)]
           ELSE /\ UNCHANGED request_logs
                /\ swl_calls' = [swl_calls EXCEPT ![th].pc = "done", ![th].result =
                       RateLimitResult(FALSE, 0,
                           IntSeconds((IF request_log # <<>> THEN Head(request_log)
                                       ELSE now) + W * Scale), PROCESSED)]
    /\ swl_lock' = IF swl_lock = th THEN 0 ELSE swl_lock
    /\ UNCHANGED <<cfgVars, confVars, fineVars, http, now, admitted, admitted_by, policies, last_call, last_status,
                   gateVars, queueVars, shutdown_flag, schedVars, callVars, releases_left>>

\* time.time() moves on.
TimeAdvance(limit) ==
    /\ now < limit
    /\ now' = now + 1
    /\ UNCHANGED <<cfgVars, confVars, fineVars, http, swlVars, gateVars, queueVars, shutdown_flag, schedVars, callVars,
                   releases_left>>

\* ---------------------------------------------------------------- TenantLoadManager
can_process_immediately == global_in_flight < max_global_concurrent_requests

\* mutant of AcquireGranted: a slot is granted at a full gate
AcquireGrantedOffByOne == global_in_flight <= max_global_concurrent_requests

\* the value acquire_processing_slot returns
AcquireGranted == global_in_flight < max_global_concurrent_requests

\* mutant of acquire_processing_slot: the tenant's counter is not incremented
acquire_processing_slot_global_only(t) ==
    IF AcquireGranted
    THEN /\ global_in_flight' = global_in_flight + 1
         /\ UNCHANGED tenant_in_flight
    ELSE UNCHANGED gateVars

acquire_processing_slot(t) ==
    IF AcquireGranted
    THEN /\ global_in_flight' = global_in_flight + 1
         /\ tenant_in_flight' = [tenant_in_flight EXCEPT ![t] = @ + 1]
    ELSE UNCHANGED gateVars

release_processing_slot(t) ==
    /\ global_in_flight' = IF global_in_flight > 0 THEN global_in_flight - 1
                           ELSE global_in_flight
    /\ tenant_in_flight' = [tenant_in_flight EXCEPT
                               ![t] = IF @ > 0 THEN @ - 1 ELSE @]

\* _tenant_queues is a defaultdict: looking a tenant up inserts its key.
TouchQueue(keys, t) ==
    IF \E i \in 1..Len(keys) : keys[i] = t THEN keys ELSE Append(keys, t)

\* mutant of QueueFull: the bound is tested one entry too late
QueueFullOffByOne(t) == Len(tenant_queues[t]) > max_tenant_queue_size

\* mutant of QueueFull: one bound for all tenants' queues together
QueueFullAnyTenant(t) ==
    \E u \in Tenants : Len(tenant_queues[u]) >= max_tenant_queue_size

\* queue_request returns False exactly when the tenant's queue is full.
QueueFull(t) == Len(tenant_queues[t]) >= max_tenant_queue_size

\* mutant of queue_request: the request is put at the head of the queue
queue_request_appendleft(req) ==
    LET t == req.tenant_id
    IN  /\ queue_keys' = TouchQueue(queue_keys, t)
        /\ tenant_queues' = IF QueueFull(t)
                            THEN tenant_queues
                            ELSE [tenant_queues EXCEPT ![t] = <<req>> \o @]

queue_request(req) ==
    LET t == req.tenant_id
    IN  /\ queue_keys' = TouchQueue(queue_keys, t)
        /\ tenant_queues' = IF QueueFull(t)
                            THEN tenant_queues
                            ELSE [tenant_queues EXCEPT ![t] = Append(@, req)]

\* ---- the background thread _process_queued_requests
SchedIdle == [pc |-> "top", keys |-> <<>>, i |-> 0]

\* `while not self._shutdown`
SchedLoop ==
    /\ sched.pc = "top"
    /\ sched' = IF shutdown_flag THEN [SchedIdle EXCEPT !.pc = "exit"]
                                 ELSE [SchedIdle EXCEPT !.pc = "capacity"]
    /\ UNCHANGED <<cfgVars, confVars, fineVars, http, now, swlVars, gateVars, queueVars, shutdown_flag, workers,
                   skipped, callVars, releases_left>>

\* `if not self.can_process_immediately(""): sleep; continue`
SchedCapacity ==
    /\ sched.pc = "capacity"
    /\ sched' = IF can_process_immediately THEN [SchedIdle EXCEPT !.pc = "snapshot"]
                                           ELSE SchedIdle
    /\ UNCHANGED <<cfgVars, confVars, fineVars, http, now, swlVars, gateVars, queueVars, shutdown_flag, workers,
                   skipped, callVars, releases_left>>

\* `for tenant_id in list(self._tenant_queues.keys())`: the keys are copied once;
\* an empty copy ends the iteration with processed_any = False.
SchedSnapshot ==
    /\ sched.pc = "snapshot"
    /\ sched' = IF queue_keys = <<>> THEN SchedIdle
                 ELSE [pc |-> "scan", keys |-> queue_keys, i |-> 1]
    /\ UNCHANGED <<cfgVars, confVars, fineVars, http, now, swlVars, gateVars, queueVars, shutdown_flag, workers,
                   skipped, callVars, releases_left>>

\* history kept for the fairness claims: a dispatch of u is counted (up to 2)
\* against every other tenant whose queue is non-empty; t's counts restart when
\* t itself is dispatched.
SkippedAfterDispatch(u) ==
    [t \in Tenants |->
        IF t = u THEN [v \in Tenants |-> 0]
        ELSE IF tenant_queues[t] # <<>>
             THEN [skipped[t] EXCEPT ![u] = IF @ < 2 THEN @ + 1 ELSE @]
             ELSE skipped[t]]

Worker(req) == [req |-> req, pc |-> "run", res |-> RateLimitResult(FALSE, 0, NoReset, "none")]

\* One pass of the loop body for the tenant at position i, under that tenant's
\* lock: `if tenant_queue and self.acquire_processing_slot(tenant_id)` then
\* popleft, start the worker and break; otherwise go on to the next tenant, and
\* after the last one sleep and start over.
SchedVisit ==
    /\ sched.pc = "scan"
    /\ LET t == sched.keys[sched.i]
       IN  IF tenant_queues[t] # <<>> /\ AcquireGranted
           THEN /\ acquire_processing_slot(t)
                /\ tenant_queues' = [tenant_queues EXCEPT ![t] = Tail(@)]
                /\ workers' = workers (+) SetToBag({Worker(Head(tenant_queues[t]))})
                /\ skipped' = SkippedAfterDispatch(t)
                /\ sched' = SchedIdle
           ELSE /\ sched' = IF sched.i < Len(sched.keys)
                             THEN [sched EXCEPT !.i = @ + 1]
                             ELSE SchedIdle
                /\ UNCHANGED <<gateVars, tenant_queues, workers, skipped>>
    /\ UNCHANGED <<cfgVars, confVars, fineVars, http, now, swlVars, queue_keys, shutdown_flag,
                   callVars, releases_left>>

\* ---- _execute_queued_request, one thread per dispatched request
RequestId(k, ts) == <<k[1], k[2], k[3], ts>>

\* mutant of ExecuteResult: the worker reports the request as rejected
ExecuteResultRejected(req) ==
    RateLimitResult(FALSE, 0, NoReset, REJECTED)

\* the `try` block: build the result and hand it to the callback
ExecuteResult(req) ==
    RateLimitResult(TRUE, 0, IntSeconds(now + req.window_duration_seconds * Scale),
                    PROCESSED)

WorkerRun(w) ==
    /\ BagIn(w, workers)
    /\ w.pc = "run"
    /\ LET res == ExecuteResult(w.req)
       IN  /\ workers' = (workers (-) SetToBag({w}))
                            (+) SetToBag({[w EXCEPT !.pc = "release", !.res = res]})
    /\ UNCHANGED <<cfgVars, confVars, fineVars, http, now, swlVars, gateVars, queueVars, shutdown_flag, sched, skipped,
                   callVars, releases_left>>

\* mutant of WorkerCallbackRaises: the exception ends the worker thread
WorkerCallbackRaisesUncaught(w) ==
    /\ BagIn(w, workers)
    /\ w.pc = "run"
    /\ workers' = workers (-) SetToBag({w})
    /\ UNCHANGED <<cfgVars, confVars, fineVars, http, now, swlVars, gateVars, queueVars, shutdown_flag, sched, skipped,
                   callVars, releases_left>>

\* `queued_request.result_callback(result)` raises: `except Exception` prints
\* the error, the `finally` block follows
WorkerCallbackRaises(w) ==
    /\ BagIn(w, workers)
    /\ w.pc = "run"
    /\ workers' = (workers (-) SetToBag({w})) (+) SetToBag({[w EXCEPT !.pc = "release"]})
    /\ UNCHANGED <<cfgVars, confVars, fineVars, http, now, swlVars, gateVars, queueVars, shutdown_flag, sched, skipped,
                   callVars, releases_left>>

\* the `finally` block
WorkerRelease(w) ==
    /\ BagIn(w, workers)
    /\ w.pc = "release"
    /\ release_processing_slot(w.req.tenant_id)
    /\ workers' = workers (-) SetToBag({w})
    /\ UNCHANGED <<cfgVars, confVars, fineVars, http, now, swlVars, queueVars, shutdown_flag, sched,
                   skipped, callVars, releases_left>>

shutdown ==
    /\ ~shutdown_flag
    /\ shutdown_flag' = TRUE
    /\ UNCHANGED <<cfgVars, confVars, fineVars, http, now, swlVars, gateVars, queueVars, schedVars, callVars, releases_left>>

\* ---------------------------------------------------------------- DistributedRateLimiter
\* check_and_consume, first statement: acquire_processing_slot(tenant_id)
DRL_acquire(th, k, N, W) ==
    /\ pc[th] = "idle"
    /\ args' = [args EXCEPT ![th] = [key |-> k, max_requests |-> N,
                                      window_duration_seconds |-> W]]
    /\ saw' = [saw EXCEPT ![th].gate_free = (global_in_flight < max_global_concurrent_requests),
                           ![th].shutdown = shutdown_flag]
    /\ acquire_processing_slot(k[1])
    /\ pc' = [pc EXCEPT ![th] = IF AcquireGranted THEN "sliding_window" ELSE "queue"]
    /\ UNCHANGED <<cfgVars, confVars, fineVars, http, now, swlVars, queueVars, shutdown_flag, schedVars, result, releases_left>>

\* the `try` block: sliding_window.check_and_consume(...)
DRL_sliding_window(th) ==
    /\ pc[th] = "sliding_window"
    /\ LET a == args[th]
       IN  /\ SlidingWindowCall(a.key, a.max_requests, a.window_duration_seconds)
           /\ result' = [result EXCEPT ![th] =
                  CheckAndConsume(request_logs[a.key], a.max_requests,
                                  a.window_duration_seconds, now).result]
    /\ pc' = [pc EXCEPT ![th] = "release"]
    /\ UNCHANGED <<cfgVars, confVars, fineVars, http, now, histVars, gateVars, queueVars, shutdown_flag, schedVars, args, saw,
                   releases_left>>

\* the `try` block left by an exception: nothing is returned, `finally` still runs
DRL_sliding_window_raises(th) ==
    /\ pc[th] = "sliding_window"
    /\ result' = [result EXCEPT ![th] = RateLimitResult(FALSE, 0, NoReset, "exception")]
    /\ pc' = [pc EXCEPT ![th] = "release"]
    /\ UNCHANGED <<cfgVars, confVars, fineVars, http, now, swlVars, gateVars, queueVars, shutdown_flag, schedVars, args, saw,
                   releases_left>>

\* mutant of DRL_release: the release is not in a `finally`, an exception skips it
DRL_release_unless_raised(th) ==
    /\ pc[th] = "release"
    /\ IF result[th].status = "exception"
       THEN UNCHANGED gateVars
       ELSE release_processing_slot(args[th].key[1])
    /\ pc' = [pc EXCEPT ![th] = IF result[th].status = "exception" THEN "raised"
                                 ELSE "returned"]
    /\ UNCHANGED <<cfgVars, confVars, fineVars, http, now, swlVars, queueVars, shutdown_flag, schedVars, args, result, saw,
                   releases_left>>

\* the `finally` block: release_processing_slot(tenant_id); then the call is over,
\* with its result returned or the exception passed on
DRL_release(th) ==
    /\ pc[th] = "release"
    /\ release_processing_slot(args[th].key[1])
    /\ pc' = [pc EXCEPT ![th] = IF result[th].status = "exception" THEN "raised"
                                 ELSE "returned"]
    /\ UNCHANGED <<cfgVars, confVars, fineVars, http, now, swlVars, queueVars, shutdown_flag, schedVars, args, result, saw,
                   releases_left>>

\* mutant of DRL_queue: the queued path also consumes from the sliding window
DRL_queue_consults_log(th) ==
    /\ pc[th] = "queue"
    /\ LET a == args[th]
           t == a.key[1]
           request_id == RequestId(a.key, now)
           queued_request == QueuedRequest(a.key, a.max_requests,
                                           a.window_duration_seconds, now, request_id)
       IN  /\ saw' = [saw EXCEPT ![th].queue_len = Len(tenant_queues[t])]
           /\ queue_request(queued_request)
           /\ SlidingWindowCall(a.key, a.max_requests, a.window_duration_seconds)
           /\ result' = [result EXCEPT ![th] =
                  IF ~QueueFull(t) THEN RateLimitResult(FALSE, 0, NoReset, QUEUED)
                  ELSE RateLimitResult(FALSE, 0, NoReset, REJECTED)]
    /\ pc' = [pc EXCEPT ![th] = "returned"]
    /\ UNCHANGED <<cfgVars, confVars, fineVars, http, now, histVars, gateVars, shutdown_flag, schedVars, args, releases_left>>

\* the `else` branch: build the QueuedRequest, queue_request, return QUEUED or
\* REJECTED.  The two time.time() reads and the enqueue are one step: a clock
\* tick between them commutes with every other step.
DRL_queue(th) ==
    /\ pc[th] = "queue"
    /\ LET a == args[th]
           t == a.key[1]
           request_id == RequestId(a.key, now)
           queued_request == QueuedRequest(a.key, a.max_requests,
                                           a.window_duration_seconds, now, request_id)
       IN  /\ saw' = [saw EXCEPT ![th].queue_len = Len(tenant_queues[t])]
           /\ queue_request(queued_request)
           /\ result' = [result EXCEPT ![th] =
                  IF ~QueueFull(t) THEN RateLimitResult(FALSE, 0, NoReset, QUEUED)
                  ELSE RateLimitResult(FALSE, 0, NoReset, REJECTED)]
    /\ pc' = [pc EXCEPT ![th] = "returned"]
    /\ UNCHANGED <<cfgVars, confVars, fineVars, http, now, swlVars, gateVars, shutdown_flag, schedVars, args, releases_left>>

\* the caller has its answer and may call again
DRL_return(th) ==
    /\ pc[th] \in {"returned", "raised"}
    /\ pc' = [pc EXCEPT ![th] = "idle"]
    /\ args' = [args EXCEPT ![th] = NoArgs]
    /\ result' = [result EXCEPT ![th] = NoResult]
    /\ saw' = [saw EXCEPT ![th] = NoSaw]
    /\ UNCHANGED <<cfgVars, confVars, fineVars, http, now, swlVars, gateVars, queueVars, shutdown_flag, schedVars, releases_left>>

\* ---------------------------------------------------------------- the check_and_consume route
FieldNames == {"tenant_id", "client_id", "action_type", "max_requests",
               "window_duration_seconds"}

\* a JSON object with the five fields, given as the text of each value
JsonObject(t, c, a, N, W) ==
    [is_json |-> TRUE, json |-> "object",
     fields |-> [f \in FieldNames |->
                   CASE f = "tenant_id" -> t [] f = "client_id" -> c
                     [] f = "action_type" -> a [] f = "max_requests" -> N
                     [] OTHER -> W]]

Restrict(fn, dom) == [x \in dom |-> fn[x]]

ValidBody == JsonObject("A", "c1", "a1", "1", "1")

\* the request bodies a client sends
Bodies ==
    { ValidBody,
      [ValidBody EXCEPT !.is_json = FALSE],               \* content type is not JSON
      [ValidBody EXCEPT !.json = "malformed"],            \* JSON content type, unparsable text
      [ValidBody EXCEPT !.json = "null"],                 \* the JSON value null
      [ValidBody EXCEPT !.fields = Restrict(@, FieldNames \ {"client_id"})],
      JsonObject("A", "c1", "a1", "abc", "1"),
      JsonObject("A", "c1", "a1", "1", "null"),
      JsonObject("A", "c1", "a1", "0", "1"),
      JsonObject("A", "c1", "a1", "1", "-1"),
      JsonObject(" ", "c1", "a1", "1", "1") }

\* int(value): the integer, or the exception raised
PyInt(text) ==
    CASE text = "1" -> [raises |-> "", value |-> 1]
      [] text = "0" -> [raises |-> "", value |-> 0]
      [] text = "-1" -> [raises |-> "", value |-> -1]
      [] text = "null" -> [raises |-> "TypeError", value |-> 0]
      [] OTHER -> [raises |-> "ValueError", value |-> 0]

\* str(value).strip(): blanks removed at both ends
PyStrip(text) == IF text \in {"", " "} THEN "" ELSE text

\* The validation part of the route: 0 when the request goes on to the limiter,
\* otherwise the response code of the request.
RouteValidation(body) ==
    IF ~body.is_json THEN 400
    ELSE IF body.json = "malformed" THEN 500     \* get_json() raises, caught by `except Exception`
    ELSE IF body.json = "null" THEN 500          \* `field not in None` raises TypeError
    ELSE IF \E f \in FieldNames : f \notin DOMAIN body.fields THEN 400
    ELSE IF PyInt(body.fields["max_requests"]).raises # ""
            \/ PyInt(body.fields["window_duration_seconds"]).raises # "" THEN 400
    ELSE IF PyInt(body.fields["max_requests"]).value <= 0 THEN 400
    ELSE IF PyInt(body.fields["window_duration_seconds"]).value <= 0 THEN 400
    ELSE IF PyStrip(body.fields["tenant_id"]) = ""
            \/ PyStrip(body.fields["client_id"]) = ""
            \/ PyStrip(body.fields["action_type"]) = "" THEN 400
    ELSE 0

\* the response code for a limiter result
ResponseCode(res) ==
    IF res.status = REJECTED THEN 429
    ELSE IF res.status = QUEUED THEN 202
    ELSE IF ~res.allowed THEN 429
    ELSE 200

NoRequest == [body |-> ValidBody, code |-> -1]

\* a request arrives at a handler thread and is validated
Route_validate(th, body) ==
    /\ pc[th] = "idle"
    /\ http[th].code # 0
    /\ http' = [http EXCEPT ![th] = [body |-> body, code |-> RouteValidation(body)]]
    /\ UNCHANGED <<cfgVars, confVars, fineVars, now, swlVars, gateVars, queueVars, shutdown_flag, schedVars,
                   callVars, releases_left>>

\* `rate_limiter.check_and_consume(...)` with the validated fields
Route_call(th) ==
    /\ http[th].code = 0
    /\ LET f == http[th].body.fields
       IN  DRL_acquire(th, <<f["tenant_id"], f["client_id"], f["action_type"]>>,
                       PyInt(f["max_requests"]).value,
                       PyInt(f["window_duration_seconds"]).value)

\* the limiter has answered, or raised: the response is built
Route_respond(th) ==
    /\ http[th].code = 0
    /\ pc[th] \in {"returned", "raised"}
    /\ http' = [http EXCEPT ![th].code = IF pc[th] = "raised" THEN 500
                                          ELSE ResponseCode(result[th])]
    /\ UNCHANGED <<cfgVars, confVars, fineVars, now, swlVars, gateVars, queueVars, shutdown_flag, schedVars,
                   callVars, releases_left>>

\* the handler thread is done with the request
Route_done(th) ==
    /\ http[th].code # 0
    /\ DRL_return(th)

\* ---------------------------------------------------------------- ConfigurationManager
\* the (tenant, client, action) triples the configuration operations are called with
ConfigTargets == ({"A"} \X {"c1", "c2"} \X {"a1", "a2"}) \cup {<<"B", "c1", "a1">>}
ConfigActions == {<<tca[1], tca[3]>> : tca \in ConfigTargets}

\* RateLimitConfig(max_requests, window_duration_seconds)
RateLimitConfig(N, W) == [max_requests |-> N, window_duration_seconds |-> W]
RateLimitConfigs == {RateLimitConfig(1, 1), RateLimitConfig(2, 1)}
NoConfig == RateLimitConfig(0, 0)     \* None
NoTarget == <<"", "", "">>
NoLookup == [target |-> NoTarget, returned |-> NoConfig]

\* dict operations: d[k] = v, d.pop(k, None)
DictPut(d, k, v) == [x \in DOMAIN d \cup {k} |-> IF x = k THEN v ELSE d[x]]
DictPop(d, k) == [x \in DOMAIN d \ {k} |-> d[x]]
EmptyDict == <<>>

\* TenantConfig(tenant_id): no action limits, no client limits
DefaultTenantConfig == [action_limits |-> EmptyDict, client_limits |-> EmptyDict]

\* ConfigurationManager.get_tenant_config: the tenant's entry is created when missing
WithTenant(configs, t) ==
    IF t \in DOMAIN configs THEN configs ELSE DictPut(configs, t, DefaultTenantConfig)

\* mutant of TenantConfigLookup: the action limit is looked up first
TenantConfigLookupActionFirst(tc, c, a) ==
    IF a \in DOMAIN tc.action_limits THEN tc.action_limits[a]
    ELSE IF c \in DOMAIN tc.client_limits /\ a \in DOMAIN tc.client_limits[c]
         THEN tc.client_limits[c][a]
    ELSE NoConfig

\* TenantConfig.get_rate_limit_config
TenantConfigLookup(tc, c, a) ==
    IF c \in DOMAIN tc.client_limits /\ a \in DOMAIN tc.client_limits[c]
    THEN tc.client_limits[c][a]
    ELSE IF a \in DOMAIN tc.action_limits THEN tc.action_limits[a]
    ELSE NoConfig

\* ConfigurationManager.get_rate_limit_config(t, c, a)
CM_get_rate_limit_config(t, c, a) ==
    /\ tenant_configs' = WithTenant(tenant_configs, t)
    /\ config_lookup' = [target |-> <<t, c, a>>,
                         returned |-> TenantConfigLookup(tenant_configs'[t], c, a)]
    /\ UNCHANGED <<last_set_action, last_set_client, last_removed>>
    /\ UNCHANGED <<cfgVars, fineVars, http, now, swlVars, gateVars, queueVars, shutdown_flag, schedVars,
                   callVars, releases_left>>

\* ConfigurationManager.set_action_limit(t, a, config)
CM_set_action_limit(t, a, config) ==
    /\ tenant_configs' =
          [WithTenant(tenant_configs, t) EXCEPT ![t].action_limits = DictPut(@, a, config)]
    /\ last_set_action' = [last_set_action EXCEPT ![<<t, a>>] = config]
    /\ config_lookup' = NoLookup
    /\ last_removed' = NoTarget
    /\ UNCHANGED last_set_client
    /\ UNCHANGED <<cfgVars, fineVars, http, now, swlVars, gateVars, queueVars, shutdown_flag, schedVars,
                   callVars, releases_left>>

\* ConfigurationManager.set_client_limit(t, c, a, config)
CM_set_client_limit(t, c, a, config) ==
    /\ LET tcs == WithTenant(tenant_configs, t)
           cl == IF c \in DOMAIN tcs[t].client_limits THEN tcs[t].client_limits
                 ELSE DictPut(tcs[t].client_limits, c, EmptyDict)
       IN  tenant_configs' =
             [tcs EXCEPT ![t].client_limits = DictPut(cl, c, DictPut(cl[c], a, config))]
    /\ last_set_client' = [last_set_client EXCEPT ![<<t, c, a>>] = config]
    /\ config_lookup' = NoLookup
    /\ last_removed' = NoTarget
    /\ UNCHANGED last_set_action
    /\ UNCHANGED <<cfgVars, fineVars, http, now, swlVars, gateVars, queueVars, shutdown_flag, schedVars,
                   callVars, releases_left>>

\* ConfigurationManager.remove_action_limit(t, a)
CM_remove_action_limit(t, a) ==
    /\ tenant_configs' =
          [WithTenant(tenant_configs, t) EXCEPT ![t].action_limits = DictPop(@, a)]
    /\ last_set_action' = [last_set_action EXCEPT ![<<t, a>>] = NoConfig]
    /\ config_lookup' = NoLookup
    /\ last_removed' = NoTarget
    /\ UNCHANGED last_set_client
    /\ UNCHANGED <<cfgVars, fineVars, http, now, swlVars, gateVars, queueVars, shutdown_flag, schedVars,
                   callVars, releases_left>>

\* ConfigurationManager.remove_client_limit(t, c, a)
CM_remove_client_limit(t, c, a) ==
    /\ LET tcs == WithTenant(tenant_configs, t)
           cl == tcs[t].client_limits
       IN  tenant_configs' =
             IF c \in DOMAIN cl
             THEN LET rest == DictPop(cl[c], a)
                  IN  [tcs EXCEPT ![t].client_limits =
                         IF DOMAIN rest = {} THEN DictPop(cl, c) ELSE DictPut(cl, c, rest)]
             ELSE tcs
    /\ last_removed' = IF last_set_client[<<t, c, a>>] # NoConfig THEN <<t, c, a>>
                       ELSE NoTarget
    /\ last_set_client' = [last_set_client EXCEPT ![<<t, c, a>>] = NoConfig]
    /\ config_lookup' = NoLookup
    /\ UNCHANGED last_set_action
    /\ UNCHANGED <<cfgVars, fineVars, http, now, swlVars, gateVars, queueVars, shutdown_flag, schedVars,
                   callVars, releases_left>>

\* ---------------------------------------------------------------- the locks of the TenantLoadManager
\* The threads of the TenantLoadManager statement by statement, with the RLocks
\* they take: _global_lock ("global") and _tenant_locks[t] (named by the tenant).
LockThreads == {"t1", "t2"}
LockNames == {"global"} \cup Tenants
LockKeys == Keys
NoQueued == QueuedRequest(<<"", "", "">>, 0, 0, -1, "none")
FSchedIdle == [pc |-> "top", keys |-> <<>>, i |-> 0, req |-> NoQueued,
               q0 |-> <<>>, got |-> 0, popped |-> 0]
NoLMCall == [pc |-> "idle", key |-> <<"", "", "">>, in_flight |-> -1]

\* the lock the next statement of the background thread enters
SchedLockWanted ==
    CASE fsched.pc = "capacity" -> "global"
      [] fsched.pc = "lock" -> fsched.keys[fsched.i]
      [] fsched.pc = "acquire" -> "global"
      [] OTHER -> "none"

\* mutant of CallLockWanted: inside the gate lock the tenant's counter is
\* updated under the tenant's lock
CallLockWantedTenantUnderGate(th) ==
    CASE lm_calls[th].pc \in {"acquire", "release"} -> "global"
      [] lm_calls[th].pc \in {"queue", "status_lock", "acquire2", "release2"} ->
            lm_calls[th].key[1]
      [] OTHER -> "none"

\* the lock the next statement of a calling thread enters
CallLockWanted(th) ==
    CASE lm_calls[th].pc \in {"acquire", "release"} -> "global"
      [] lm_calls[th].pc \in {"queue", "status_lock"} -> lm_calls[th].key[1]
      [] OTHER -> "none"

\* `with lock:` is entered when no other thread is inside
CanEnter(l) == IF l = "none" THEN TRUE ELSE lock_holder[l] = "free"

Enter(l, who) == lock_holder' = [lock_holder EXCEPT ![l] = who]
Leave(l) == lock_holder' = [lock_holder EXCEPT ![l] = "free"]

\* ---- _process_queued_requests
\* `while not self._shutdown`
ProcessQueued_loop ==
    /\ fsched.pc = "top"
    /\ fsched' = [FSchedIdle EXCEPT !.pc = IF shutdown_flag THEN "exit" ELSE "capacity"]
    /\ UNCHANGED <<cfgVars, confVars, http, now, swlVars, gateVars, queueVars, shutdown_flag,
                   schedVars, callVars, releases_left, lock_holder, lm_calls>>

\* `if not self.can_process_immediately(""): sleep; continue` (the gate lock is
\* entered and left by the one read)
ProcessQueued_capacity ==
    /\ fsched.pc = "capacity"
    /\ CanEnter(SchedLockWanted)
    /\ fsched' = [FSchedIdle EXCEPT !.pc = IF can_process_immediately THEN "snapshot"
                                            ELSE "top"]
    /\ UNCHANGED <<cfgVars, confVars, http, now, swlVars, gateVars, queueVars, shutdown_flag,
                   schedVars, callVars, releases_left, lock_holder, lm_calls>>

\* `for tenant_id in list(self._tenant_queues.keys())`
ProcessQueued_snapshot ==
    /\ fsched.pc = "snapshot"
    /\ fsched' = IF queue_keys = <<>> THEN FSchedIdle
                  ELSE [FSchedIdle EXCEPT !.pc = "lock", !.keys = queue_keys, !.i = 1]
    /\ UNCHANGED <<cfgVars, confVars, http, now, swlVars, gateVars, queueVars, shutdown_flag,
                   schedVars, callVars, releases_left, lock_holder, lm_calls>>

\* the loop goes on to the next tenant, or sleeps after the last one
NextTenant ==
    IF fsched.i < Len(fsched.keys)
    THEN [FSchedIdle EXCEPT !.pc = "lock", !.keys = fsched.keys, !.i = fsched.i + 1]
    ELSE FSchedIdle

\* `with self._tenant_locks[tenant_id]:`
ProcessQueued_lock ==
    /\ fsched.pc = "lock"
    /\ CanEnter(SchedLockWanted)
    /\ LET t == fsched.keys[fsched.i]
       IN  /\ Enter(t, "sched")
           /\ fsched' = [fsched EXCEPT !.pc = "check", !.q0 = tenant_queues[t]]
    /\ UNCHANGED <<cfgVars, confVars, http, now, swlVars, gateVars, queueVars, shutdown_flag,
                   schedVars, callVars, releases_left, lm_calls>>

\* `if tenant_queue and ...`: an empty queue ends the visit
ProcessQueued_check ==
    /\ fsched.pc = "check"
    /\ LET t == fsched.keys[fsched.i]
       IN  IF tenant_queues[t] # <<>>
           THEN /\ fsched' = [fsched EXCEPT !.pc = "acquire"]
                /\ UNCHANGED lock_holder
           ELSE /\ fsched' = NextTenant
                /\ Leave(t)
    /\ UNCHANGED <<cfgVars, confVars, http, now, swlVars, gateVars, queueVars, shutdown_flag,
                   schedVars, callVars, releases_left, lm_calls>>

\* mutant of ProcessQueued_acquire: the request is dequeued whatever
\* acquire_processing_slot returns
ProcessQueued_acquire_result_ignored ==
    /\ fsched.pc = "acquire"
    /\ CanEnter(SchedLockWanted)
    /\ IF AcquireGranted
       THEN /\ global_in_flight' = global_in_flight + 1
            /\ UNCHANGED tenant_in_flight
            /\ Enter("global", "sched")
            /\ fsched' = [fsched EXCEPT !.pc = "acquire2"]
       ELSE /\ UNCHANGED <<gateVars, lock_holder>>
            /\ fsched' = [fsched EXCEPT !.pc = "popleft"]
    /\ UNCHANGED <<cfgVars, confVars, http, now, swlVars, queueVars, shutdown_flag,
                   schedVars, callVars, releases_left, lm_calls>>

\* `... and self.acquire_processing_slot(tenant_id)`: the gate lock is entered,
\* the gate tested and _global_in_flight raised; a refusal ends the visit
ProcessQueued_acquire ==
    /\ fsched.pc = "acquire"
    /\ CanEnter(SchedLockWanted)
    /\ LET t == fsched.keys[fsched.i]
       IN  IF AcquireGranted
           THEN /\ global_in_flight' = global_in_flight + 1
                /\ UNCHANGED tenant_in_flight
                /\ Enter("global", "sched")
                /\ fsched' = [fsched EXCEPT !.pc = "acquire2"]
           ELSE /\ UNCHANGED gateVars
                /\ Leave(t)
                /\ fsched' = NextTenant
    /\ UNCHANGED <<cfgVars, confVars, http, now, swlVars, queueVars, shutdown_flag,
                   schedVars, callVars, releases_left, lm_calls>>

\* `self._tenant_in_flight[tenant_id] += 1; return True`
ProcessQueued_acquire2 ==
    /\ fsched.pc = "acquire2"
    /\ CanEnter(SchedLockWanted)
    /\ tenant_in_flight' = [tenant_in_flight EXCEPT ![fsched.keys[fsched.i]] = @ + 1]
    /\ UNCHANGED global_in_flight
    /\ Leave("global")
    /\ fsched' = [fsched EXCEPT !.pc = "popleft", !.got = @ + 1]
    /\ UNCHANGED <<cfgVars, confVars, http, now, swlVars, queueVars, shutdown_flag,
                   schedVars, callVars, releases_left, lm_calls>>

\* `queued_request = tenant_queue.popleft()`
ProcessQueued_popleft ==
    /\ fsched.pc = "popleft"
    /\ LET t == fsched.keys[fsched.i]
       IN  /\ tenant_queues' = [tenant_queues EXCEPT ![t] = Tail(@)]
           /\ fsched' = [fsched EXCEPT !.pc = "start", !.req = Head(tenant_queues[t]),
                                        !.popped = @ + 1]
    /\ UNCHANGED <<cfgVars, confVars, http, now, swlVars, gateVars, queue_keys, shutdown_flag,
                   schedVars, callVars, releases_left, lock_holder, lm_calls>>

\* `processing_thread.start()`, inside the `with` block
ProcessQueued_start ==
    /\ fsched.pc = "start"
    /\ workers' = workers (+) SetToBag({Worker(fsched.req)})
    /\ fsched' = [fsched EXCEPT !.pc = "break"]
    /\ UNCHANGED <<cfgVars, confVars, http, now, swlVars, gateVars, queueVars, shutdown_flag,
                   sched, skipped, callVars, releases_left, lock_holder, lm_calls>>

\* `processing_thread.start()` raises (no thread can be started): the `with`
\* block is left and `except Exception` prints, sleeps and goes on with the loop
ProcessQueued_start_raises ==
    /\ fsched.pc = "start"
    /\ Leave(fsched.keys[fsched.i])
    /\ fsched' = FSchedIdle
    /\ UNCHANGED <<cfgVars, confVars, http, now, swlVars, gateVars, queueVars, shutdown_flag,
                   schedVars, callVars, releases_left, lm_calls>>

\* `break`: the `with` block is left
ProcessQueued_break ==
    /\ fsched.pc = "break"
    /\ Leave(fsched.keys[fsched.i])
    /\ fsched' = FSchedIdle
    /\ UNCHANGED <<cfgVars, confVars, http, now, swlVars, gateVars, queueVars, shutdown_flag,
                   schedVars, callVars, releases_left, lm_calls>>

\* ---- _execute_queued_request: the `finally` block, statement by statement
Execute_release(w) ==
    /\ BagIn(w, workers)
    /\ w.pc = "release"
    /\ CanEnter("global")
    /\ Enter("global", "worker")
    /\ global_in_flight' = IF global_in_flight > 0 THEN global_in_flight - 1
                           ELSE global_in_flight
    /\ UNCHANGED tenant_in_flight
    /\ workers' = (workers (-) SetToBag({w})) (+) SetToBag({[w EXCEPT !.pc = "release2"]})
    /\ UNCHANGED <<cfgVars, confVars, http, now, swlVars, queueVars, shutdown_flag, sched,
                   skipped, callVars, releases_left, fsched, lm_calls>>

Execute_release2(w) ==
    /\ BagIn(w, workers)
    /\ w.pc = "release2"
    /\ tenant_in_flight' = [tenant_in_flight EXCEPT
                               ![w.req.tenant_id] = IF @ > 0 THEN @ - 1 ELSE @]
    /\ UNCHANGED global_in_flight
    /\ Leave("global")
    /\ workers' = workers (-) SetToBag({w})
    /\ UNCHANGED <<cfgVars, confVars, http, now, swlVars, queueVars, shutdown_flag, sched,
                   skipped, callVars, releases_left, fsched, lm_calls>>

\* ---- the calling threads
\* a thread calls DistributedRateLimiter.check_and_consume
LMCall_check_and_consume(th, k) ==
    /\ lm_calls[th].pc = "idle"
    /\ lm_calls' = [lm_calls EXCEPT ![th] = [NoLMCall EXCEPT !.pc = "acquire", !.key = k]]
    /\ UNCHANGED <<cfgVars, confVars, http, now, swlVars, gateVars, queueVars, shutdown_flag,
                   schedVars, callVars, releases_left, lock_holder, fsched>>

\* a thread calls TenantLoadManager.queue_request
LMCall_queue_request(th, k) ==
    /\ lm_calls[th].pc = "idle"
    /\ lm_calls' = [lm_calls EXCEPT ![th] = [NoLMCall EXCEPT !.pc = "queue", !.key = k]]
    /\ UNCHANGED <<cfgVars, confVars, http, now, swlVars, gateVars, queueVars, shutdown_flag,
                   schedVars, callVars, releases_left, lock_holder, fsched>>

\* a thread calls DistributedRateLimiter.get_status: SlidingWindowLog.get_status
\* reads the log under the log's own lock, get_queue_status follows
LMCall_get_status(th, k) ==
    /\ lm_calls[th].pc = "idle"
    /\ swl_lock = 0
    /\ lm_calls' = [lm_calls EXCEPT ![th] = [NoLMCall EXCEPT !.pc = "status_lock", !.key = k]]
    /\ UNCHANGED <<cfgVars, confVars, http, now, swlVars, gateVars, queueVars, shutdown_flag,
                   schedVars, callVars, releases_left, lock_holder, fsched>>

\* acquire_processing_slot: the gate lock is entered, the gate tested and
\* _global_in_flight raised
LMCall_acquire(th) ==
    /\ lm_calls[th].pc = "acquire"
    /\ CanEnter(CallLockWanted(th))
    /\ IF AcquireGranted
       THEN /\ global_in_flight' = global_in_flight + 1
            /\ Enter("global", th)
            /\ lm_calls' = [lm_calls EXCEPT ![th].pc = "acquire2"]
       ELSE /\ UNCHANGED <<global_in_flight, lock_holder>>
            /\ lm_calls' = [lm_calls EXCEPT ![th].pc = "queue"]
    /\ UNCHANGED tenant_in_flight
    /\ UNCHANGED <<cfgVars, confVars, http, now, swlVars, queueVars, shutdown_flag,
                   schedVars, callVars, releases_left, fsched>>

\* `self._tenant_in_flight[tenant_id] += 1; return True`
LMCall_acquire2(th) ==
    /\ lm_calls[th].pc = "acquire2"
    /\ CanEnter(CallLockWanted(th))
    /\ tenant_in_flight' = [tenant_in_flight EXCEPT ![lm_calls[th].key[1]] = @ + 1]
    /\ UNCHANGED global_in_flight
    /\ Leave("global")
    /\ lm_calls' = [lm_calls EXCEPT ![th].pc = "sliding_window"]
    /\ UNCHANGED <<cfgVars, confVars, http, now, swlVars, queueVars, shutdown_flag,
                   schedVars, callVars, releases_left, fsched>>

\* `self.sliding_window.check_and_consume(...)` with the slot held
LMCall_sliding_window(th) ==
    /\ lm_calls[th].pc = "sliding_window"
    /\ SlidingWindowCall(lm_calls[th].key, 1, 1)
    /\ lm_calls' = [lm_calls EXCEPT ![th].pc = "release"]
    /\ UNCHANGED <<cfgVars, confVars, http, now, histVars, gateVars, queueVars, shutdown_flag,
                   schedVars, callVars, releases_left, lock_holder, fsched>>

\* release_processing_slot: the gate lock is entered and _global_in_flight lowered
LMCall_release(th) ==
    /\ lm_calls[th].pc = "release"
    /\ CanEnter(CallLockWanted(th))
    /\ Enter("global", th)
    /\ global_in_flight' = IF global_in_flight > 0 THEN global_in_flight - 1
                           ELSE global_in_flight
    /\ UNCHANGED tenant_in_flight
    /\ lm_calls' = [lm_calls EXCEPT ![th].pc = "release2"]
    /\ UNCHANGED <<cfgVars, confVars, http, now, swlVars, queueVars, shutdown_flag,
                   schedVars, callVars, releases_left, fsched>>

\* the tenant's counter is lowered and the gate lock left
LMCall_release2(th) ==
    /\ lm_calls[th].pc = "release2"
    /\ CanEnter(CallLockWanted(th))
    /\ tenant_in_flight' = [tenant_in_flight EXCEPT
                               ![lm_calls[th].key[1]] = IF @ > 0 THEN @ - 1 ELSE @]
    /\ UNCHANGED global_in_flight
    /\ Leave("global")
    /\ lm_calls' = [lm_calls EXCEPT ![th] = NoLMCall]
    /\ UNCHANGED <<cfgVars, confVars, http, now, swlVars, queueVars, shutdown_flag,
                   schedVars, callVars, releases_left, fsched>>

\* queue_request: `with self._tenant_locks[tenant_id]:`
LMCall_queue(th) ==
    /\ lm_calls[th].pc = "queue"
    /\ CanEnter(CallLockWanted(th))
    /\ Enter(lm_calls[th].key[1], th)
    /\ lm_calls' = [lm_calls EXCEPT ![th].pc = "queue2"]
    /\ UNCHANGED <<cfgVars, confVars, http, now, swlVars, gateVars, queueVars, shutdown_flag,
                   schedVars, callVars, releases_left, fsched>>

\* the request is appended unless the queue is full, and the lock left
LMCall_queue2(th) ==
    /\ lm_calls[th].pc = "queue2"
    /\ CanEnter(CallLockWanted(th))
    /\ queue_request(QueuedRequest(lm_calls[th].key, 1, 1, now, "facade"))
    /\ Leave(lm_calls[th].key[1])
    /\ lm_calls' = [lm_calls EXCEPT ![th] = NoLMCall]
    /\ UNCHANGED <<cfgVars, confVars, http, now, swlVars, gateVars, shutdown_flag,
                   schedVars, callVars, releases_left, fsched>>

\* get_queue_status: `with self._tenant_locks[tenant_id]:`
LMCall_status_lock(th) ==
    /\ lm_calls[th].pc = "status_lock"
    /\ CanEnter(CallLockWanted(th))
    /\ Enter(lm_calls[th].key[1], th)
    /\ lm_calls' = [lm_calls EXCEPT ![th].pc = "status_queue"]
    /\ UNCHANGED <<cfgVars, confVars, http, now, swlVars, gateVars, queueVars, shutdown_flag,
                   schedVars, callVars, releases_left, fsched>>

\* `len(self._tenant_queues[tenant_id])`: the lookup inserts the tenant's key
LMCall_status_queue(th) ==
    /\ lm_calls[th].pc = "status_queue"
    /\ queue_keys' = TouchQueue(queue_keys, lm_calls[th].key[1])
    /\ UNCHANGED tenant_queues
    /\ lm_calls' = [lm_calls EXCEPT ![th].pc = "status_tenant"]
    /\ UNCHANGED <<cfgVars, confVars, http, now, swlVars, gateVars, shutdown_flag,
                   schedVars, callVars, releases_left, lock_holder, fsched>>

\* `self._tenant_in_flight[tenant_id]` is read
LMCall_status_tenant(th) ==
    /\ lm_calls[th].pc = "status_tenant"
    /\ lm_calls' = [lm_calls EXCEPT ![th].pc = "status_global",
                                    ![th].in_flight = tenant_in_flight[lm_calls[th].key[1]]]
    /\ UNCHANGED <<cfgVars, confVars, http, now, swlVars, gateVars, queueVars, shutdown_flag,
                   schedVars, callVars, releases_left, lock_holder, fsched>>

\* `self._global_in_flight` is read, the dict returned and the lock left
LMCall_status_global(th) ==
    /\ lm_calls[th].pc = "status_global"
    /\ Leave(lm_calls[th].key[1])
    /\ lm_calls' = [lm_calls EXCEPT ![th] = NoLMCall]
    /\ UNCHANGED <<cfgVars, confVars, http, now, swlVars, gateVars, queueVars, shutdown_flag,
                   schedVars, callVars, releases_left, fsched>>

\* ---------------------------------------------------------------- direct use of TenantLoadManager
LM_acquire_processing_slot(t) ==
    /\ acquire_processing_slot(t)
    /\ UNCHANGED <<cfgVars, confVars, fineVars, http, now, swlVars, queueVars, shutdown_flag, schedVars, callVars, releases_left>>

LM_release_processing_slot(t) ==
    /\ releases_left > 0
    /\ releases_left' = releases_left - 1
    /\ release_processing_slot(t)
    /\ UNCHANGED <<cfgVars, confVars, fineVars, http, now, swlVars, queueVars, shutdown_flag, schedVars, callVars>>

LM_queue_request(k, N, W) ==
    /\ queue_request(QueuedRequest(k, N, W, now, "external"))
    /\ UNCHANGED <<cfgVars, confVars, fineVars, http, now, swlVars, gateVars, shutdown_flag, schedVars, callVars, releases_left>>

\* ---------------------------------------------------------------- specifications
InitState(configs) ==
    /\ \E c \in configs : /\ max_global_concurrent_requests = c[1]
                           /\ max_tenant_queue_size = c[2]
    /\ now = 0
    /\ request_logs = [k \in Keys |-> <<>>]
    /\ admitted = [k \in Keys |-> <<>>]
    /\ admitted_by = [k \in Keys |-> <<>>]
    /\ policies = [k \in Keys |-> {}]
    /\ swl_lock = 0
    /\ swl_calls = [th \in AllThreads |-> NoSwlCall]
    /\ last_call = NoCall
    /\ last_status = NoStatus
    /\ global_in_flight = 0
    /\ tenant_in_flight = [t \in Tenants |-> 0]
    /\ tenant_queues = [t \in Tenants |-> <<>>]
    /\ queue_keys = <<>>
    /\ shutdown_flag = FALSE
    /\ sched = SchedIdle
    /\ workers = EmptyBag
    /\ skipped = [t \in Tenants |-> [u \in Tenants |-> 0]]
    /\ pc = [th \in AllThreads |-> "idle"]
    /\ args = [th \in AllThreads |-> NoArgs]
    /\ result = [th \in AllThreads |-> NoResult]
    /\ saw = [th \in AllThreads |-> NoSaw]
    /\ releases_left = MaxDirectReleases
    /\ http = [th \in AllThreads |-> NoRequest]
    /\ lock_holder = [l \in LockNames |-> "free"]
    /\ fsched = FSchedIdle
    /\ lm_calls = [th \in LockThreads |-> NoLMCall]
    /\ tenant_configs = <<>>
    /\ config_lookup = NoLookup
    /\ last_set_action = [ta \in ConfigActions |-> NoConfig]
    /\ last_set_client = [tca \in ConfigTargets |-> NoConfig]
    /\ last_removed = NoTarget

Init == InitState(FacadeConfigs)

InitLM == InitState(LMConfigs)

Scheduler == SchedLoop \/ SchedCapacity \/ SchedSnapshot \/ SchedVisit

WorkerStep == \E w \in BagToSet(workers) : WorkerRun(w) \/ WorkerRelease(w)

\* the service as the routes use it: every request goes through the facade
Next ==
    \/ \E th \in Threads, k \in Keys, N \in FacadeLimits, W \in FacadeWindows :
          DRL_acquire(th, k, N, W)
    \/ \E th \in Threads : DRL_sliding_window(th)
    \/ \E th \in Threads : DRL_sliding_window_raises(th)
    \/ \E th \in Threads : DRL_release(th)
    \/ \E th \in Threads : DRL_queue(th)
    \/ \E th \in Threads : DRL_return(th)
    \/ Scheduler
    \/ WorkerStep
    \/ shutdown

Spec == Init /\ [][Next]_vars

\* the SlidingWindowLog on its own
NextSWL ==
    \/ TimeAdvance(MaxTime)
    \/ \E k \in Keys, N \in Limits, W \in Windows : SWL_check_and_consume(k, N, W)

SpecSWL == Init /\ [][NextSWL]_vars

\* the SlidingWindowLog on its own, each call's answer kept
NextCalls ==
    \/ TimeAdvance(MaxTime)
    \/ \E k \in Keys, N \in Limits, W \in Windows : SWL_check_and_consume_returns(k, N, W)

SpecCalls == Init /\ [][NextCalls]_vars

\* the SlidingWindowLog on its own, calls with different policies on one key
NextPolicies ==
    \/ TimeAdvance(MaxTime)
    \/ \E k \in HistoryKeys, N \in Limits, W \in Windows :
          SWL_check_and_consume_policy(k, N, W)

SpecPolicies == Init /\ [][NextPolicies]_vars

\* threads call SlidingWindowLog.check_and_consume at the same time, once each
NextConcurrent ==
    \/ \E th \in ConcurrentThreads, k \in Keys, N \in Limits : SWLT_lock(th, k, N, 1)
    \/ \E th \in ConcurrentThreads : SWLT_check(th)
    \/ \E th \in ConcurrentThreads : SWLT_consume(th)

SpecConcurrent == Init /\ [][NextConcurrent]_vars

\* the SlidingWindowLog with its status calls
NextStatus ==
    \/ TimeAdvance(StatusMaxTime)
    \/ \E k \in Keys, N \in Limits, W \in Windows : SWL_check_and_consume(k, N, W)
    \/ \E k \in Keys, N \in Limits, W \in Windows : SWL_get_status(k, N, W)

SpecStatus == Init /\ [][NextStatus]_vars

\* the TenantLoadManager called directly, as its unit tests do
NextLM ==
    \/ \E t \in Tenants : LM_acquire_processing_slot(t)
    \/ \E t \in Tenants : LM_release_processing_slot(t)
    \/ \E k \in Keys : LM_queue_request(k, 1, 1)
    \/ Scheduler
    \/ WorkerStep
    \/ shutdown

SpecLM == InitLM /\ [][NextLM]_vars

\* requests are queued while the clock moves on, and the background thread and
\* its workers run
NextFifo ==
    \/ TimeAdvance(StatusMaxTime)
    \/ \E k \in Keys : LM_queue_request(k, 1, 1)
    \/ Scheduler
    \/ WorkerStep

SpecFifo == InitLM /\ [][NextFifo]_vars

\* the TenantLoadManager called directly, with completion callbacks that may raise
WorkerStepOrRaise ==
    \E w \in BagToSet(workers) : WorkerRun(w) \/ WorkerCallbackRaises(w) \/ WorkerRelease(w)

NextWorkers ==
    \/ \E t \in Tenants : LM_acquire_processing_slot(t)
    \/ \E k \in Keys : LM_queue_request(k, 1, 1)
    \/ Scheduler
    \/ WorkerStepOrRaise
    \/ shutdown

SpecWorkers == InitLM /\ [][NextWorkers]_vars

\* scenario S5: G = 1, Q = 1, three threads make one call each for one tenant
\* under a policy that admits them all, while the scheduler and its workers run
NextGateSaturation ==
    \/ \E th \in GateSaturationThreads :
          DRL_acquire(th, <<"A", "c1", "a1">>, GateSaturationLimit, 1)
    \/ \E th \in GateSaturationThreads : DRL_sliding_window(th)
    \/ \E th \in GateSaturationThreads : DRL_release(th)
    \/ \E th \in GateSaturationThreads : DRL_queue(th)
    \/ Scheduler
    \/ WorkerStep

SpecGateSaturation == Init /\ [][NextGateSaturation]_vars

\* more callers than the rate limit admits call the facade at once on one key,
\* once each, while the scheduler and its workers run
InitUnderLoad == InitState(UnderLoadConfigs)

NextUnderLoad ==
    \/ \E th \in UnderLoadThreads :
          DRL_acquire(th, <<"A", "c1", "a1">>, UnderLoadLimit, 1)
    \/ \E th \in UnderLoadThreads : DRL_sliding_window(th)
    \/ \E th \in UnderLoadThreads : DRL_release(th)
    \/ \E th \in UnderLoadThreads : DRL_queue(th)
    \/ Scheduler
    \/ WorkerStep

SpecUnderLoad == InitUnderLoad /\ [][NextUnderLoad]_vars

\* the background thread statement by statement
ProcessQueued ==
    \/ ProcessQueued_loop
    \/ ProcessQueued_capacity
    \/ ProcessQueued_snapshot
    \/ ProcessQueued_lock
    \/ ProcessQueued_check
    \/ ProcessQueued_acquire
    \/ ProcessQueued_acquire2
    \/ ProcessQueued_popleft
    \/ ProcessQueued_start
    \/ ProcessQueued_break

ExecuteStep == \E w \in BagToSet(workers) : WorkerRun(w) \/ Execute_release(w) \/ Execute_release2(w)

LMCallStep(th) ==
    \/ LMCall_acquire(th)
    \/ LMCall_acquire2(th)
    \/ LMCall_sliding_window(th)
    \/ LMCall_release(th)
    \/ LMCall_release2(th)
    \/ LMCall_queue(th)
    \/ LMCall_queue2(th)
    \/ LMCall_status_lock(th)
    \/ LMCall_status_queue(th)
    \/ LMCall_status_tenant(th)
    \/ LMCall_status_global(th)

\* threads call check_and_consume, get_status and queue_request while the
\* background thread and its workers run, every lock taken as the code takes it
NextLocks ==
    \/ \E th \in LockThreads, k \in LockKeys : LMCall_check_and_consume(th, k)
    \/ \E th \in LockThreads, k \in LockKeys : LMCall_queue_request(th, k)
    \/ \E th \in LockThreads, k \in LockKeys : LMCall_get_status(th, k)
    \/ \E th \in LockThreads : LMCallStep(th)
    \/ ProcessQueued
    \/ ExecuteStep
    \/ shutdown

SpecLocks == Init /\ [][NextLocks]_vars

\* the same threads on a machine on which starting a worker thread can fail
NextStartFails ==
    \/ NextLocks
    \/ ProcessQueued_start_raises

SpecStartFails == Init /\ [][NextStartFails]_vars

\* set, remove and lookup operations on a ConfigurationManager, one after another
NextConfig ==
    \/ \E tca \in ConfigTargets : CM_get_rate_limit_config(tca[1], tca[2], tca[3])
    \/ \E ta \in ConfigActions, config \in RateLimitConfigs :
          CM_set_action_limit(ta[1], ta[2], config)
    \/ \E tca \in ConfigTargets, config \in RateLimitConfigs :
          CM_set_client_limit(tca[1], tca[2], tca[3], config)
    \/ \E ta \in ConfigActions : CM_remove_action_limit(ta[1], ta[2])
    \/ \E tca \in ConfigTargets : CM_remove_client_limit(tca[1], tca[2], tca[3])

SpecConfig == Init /\ [][NextConfig]_vars

\* the service behind its HTTP route
NextRoute ==
    \/ \E th \in Threads, body \in Bodies : Route_validate(th, body)
    \/ \E th \in Threads : Route_call(th)
    \/ \E th \in Threads : DRL_sliding_window(th)
    \/ \E th \in Threads : DRL_sliding_window_raises(th)
    \/ \E th \in Threads : DRL_release(th)
    \/ \E th \in Threads : DRL_queue(th)
    \/ \E th \in Threads : Route_respond(th)
    \/ \E th \in Threads : Route_done(th)
    \/ Scheduler
    \/ WorkerStep

SpecRoute == Init /\ [][NextRoute]_vars

\* a facade call that has started runs on to its end
CallProgress(th) ==
    \/ DRL_sliding_window(th)
    \/ DRL_sliding_window_raises(th)
    \/ DRL_release(th)
    \/ DRL_queue(th)

\* The background thread and the worker threads are scheduled by the operating
\* system and never wait for anything but a lock that is held only briefly: each
\* of their steps is taken eventually.  Callers need not call again.
FairSpec ==
    /\ Spec
    /\ WF_vars(Scheduler)
    /\ WF_vars(WorkerStep)
    /\ \A th \in Threads : WF_vars(CallProgress(th))

\* the load manager used directly, with its threads scheduled as above
FairSpecLM ==
    /\ SpecLM
    /\ WF_vars(Scheduler)
    /\ WF_vars(WorkerStep)

\* the load manager with callbacks that may raise, its threads scheduled as above
FairSpecWorkers ==
    /\ SpecWorkers
    /\ WF_vars(Scheduler)
    /\ WF_vars(WorkerStepOrRaise)

\* ================================================================ claims

\* number of the timestamps ts that lie in the window (s, s + len]
WindowCount(ts, s, len) ==
    Cardinality({i \in 1..Len(ts) : s < ts[i] /\ ts[i] <= s + len})

\* C1: for a key whose calls all passed the same policy (N, W), no window of
\* length W (open at its start, closed at its end, as the log counts it) holds
\* more than N admitted timestamps.
C1_AdmissionBound ==
    \A k \in HistoryKeys : \A N \in Limits, W \in Windows :
        policies[k] = {<<N, W>>} =>
            \A s \in (0 - W * Scale)..now :
                WindowCount(admitted[k], s, W * Scale) <= N

\* a key used with one policy only that was saturated, denied nothing more than
\* N per window, and admitted again after the window had passed
C1_Witness ==
    \E k \in HistoryKeys :
        /\ policies[k] = {<<1, 1>>}
        /\ Len(admitted[k]) >= 2
        /\ Len(request_logs[k]) = 1

\* C2: both kinds of in-flight counter stay within [0, G].
C2_CountersWithinGate ==
    /\ global_in_flight \in 0..max_global_concurrent_requests
    /\ \A t \in Tenants : tenant_in_flight[t] \in 0..max_global_concurrent_requests

RECURSIVE SumInFlight(_)
SumInFlight(ts) ==
    IF ts = {} THEN 0
    ELSE LET t == CHOOSE x \in ts : TRUE
         IN  tenant_in_flight[t] + SumInFlight(ts \ {t})

\* C3: the per-tenant counters add up to the global counter.
C3_TenantSumIsGlobal == SumInFlight(Tenants) = global_in_flight

\* C4: no tenant queue is longer than max_tenant_queue_size.
C4_QueueBound ==
    \A t \in Tenants : Len(tenant_queues[t]) <= max_tenant_queue_size

\* a full queue while the scheduler has already taken a request out of a queue
C4_Witness ==
    /\ \E t \in Tenants : Len(tenant_queues[t]) = max_tenant_queue_size
    /\ workers # EmptyBag

\* ---- the facade

Returned(th) == pc[th] = "returned"

\* C5: a call returns PROCESSED exactly when its acquire step found the gate
\* below G; otherwise QUEUED exactly when the tenant's queue was below Q at its
\* enqueue step, and REJECTED exactly when that queue held Q entries.
C5_StatusFollowsGateAndQueue ==
    \A th \in Threads : Returned(th) =>
        /\ (result[th].status = PROCESSED) <=> saw[th].gate_free
        /\ ~saw[th].gate_free =>
              /\ (result[th].status = QUEUED) <=> (saw[th].queue_len < max_tenant_queue_size)
              /\ (result[th].status = REJECTED) <=> (saw[th].queue_len = max_tenant_queue_size)
        /\ result[th].status \in {PROCESSED, QUEUED, REJECTED}

\* one call has returned PROCESSED and another REJECTED from a full queue
C5_Witness ==
    \E th1, th2 \in Threads :
        /\ Returned(th1) /\ result[th1].status = PROCESSED
        /\ Returned(th2) /\ result[th2].status = REJECTED
        /\ saw[th2].queue_len = max_tenant_queue_size

\* C6: a call that returns QUEUED or REJECTED returns allowed = false,
\* remaining = 0 and no reset time, and none of its steps (the refused acquire,
\* the enqueue) changes the log of any key.
C6_QueuedAndRejectedLeaveLogs ==
    [][\A th \in Threads :
         /\ (pc[th] = "idle" /\ pc'[th] = "queue") => request_logs' = request_logs
         /\ (pc[th] = "queue" /\ pc'[th] = "returned") =>
               /\ request_logs' = request_logs
               /\ result'[th].status \in {QUEUED, REJECTED}
               /\ result'[th].allowed = FALSE
               /\ result'[th].remaining_requests = 0
               /\ result'[th].reset_time_seconds = NoReset
         /\ (pc'[th] = "returned" /\ result'[th].status \in {QUEUED, REJECTED}) =>
               pc[th] \in {"queue", "returned"}]_vars

\* a call has returned QUEUED while some key's log holds an admission
C6_Witness ==
    \E th \in Threads :
        /\ Returned(th) /\ result[th].status = QUEUED
        /\ \E k \in Keys : request_logs[k] # <<>>

HoldsSlot(th) == pc[th] \in {"sliding_window", "release"}

\* C7: every slot a facade call acquired is given back before the call is over,
\* also when the sliding window raises: the gate counts exactly the calls between
\* their acquire and their release plus the running workers, so it is 0 when no
\* call and no worker is in progress.
C7_SlotReleasedOnEveryPath ==
    /\ global_in_flight =
          Cardinality({th \in Threads : HoldsSlot(th)}) + BagCardinality(workers)
    /\ ((\A th \in Threads : pc[th] \in {"idle", "returned", "raised"})
          /\ workers = EmptyBag) => global_in_flight = 0

\* a call that acquired a slot has ended with an exception, another has returned
\* PROCESSED, and nothing is in progress
C7_Witness ==
    /\ \E th1, th2 \in Threads :
          /\ pc[th1] = "raised"
          /\ Returned(th2) /\ result[th2].status = PROCESSED
    /\ workers = EmptyBag
    /\ global_in_flight = 0

\* ---- the scheduler

\* the step in which worker w hands the result w2.res to its request's callback
Delivers(w, w2) ==
    /\ w.pc = "run" /\ w2.pc = "release" /\ w2.req = w.req
    /\ CopiesIn(w, workers') < CopiesIn(w, workers)
    /\ CopiesIn(w2, workers') > CopiesIn(w2, workers)

\* C8: a queued request is decided as the direct path decides: the delivered
\* result has allowed = true only if the key had fewer than max_requests
\* in-window admissions, and an admitted request is recorded in the key's log.
C8_QueuedDecidedBySlidingWindow ==
    [][\A w \in BagToSet(workers), w2 \in BagToSet(workers') :
         (Delivers(w, w2) /\ w2.res.allowed) =>
            LET k == KeyOf(w.req)
                in_window == Prune(request_logs[k],
                                   now - w.req.window_duration_seconds * Scale)
            IN  /\ Len(in_window) < w.req.max_requests
                /\ request_logs'[k] = Append(in_window, now)]_vars

\* C9: strict round-robin: while t's queue stays non-empty, no other tenant is
\* dispatched twice before t is.
C9_StrictRoundRobin ==
    \A t, u \in Tenants : skipped[t][u] <= 1

\* C10: while the scheduler runs and the gate is free again and again, a tenant
\* with a non-empty queue eventually has a request dispatched to a worker.  The
\* premise is read in the way most favourable to the code: the spare capacity is
\* capacity the scheduler itself gets to use, it dispatches again and again.
Dispatching == \E w \in BagToSet(workers) : w.pc = "run"

C10_NoStarvation ==
    \A t \in Tenants :
        ( /\ []<>(global_in_flight < max_global_concurrent_requests)
          /\ []<>Dispatching
          /\ []~shutdown_flag )
          => ((tenant_queues[t] # <<>>)
                ~> (\E w \in BagToSet(workers) : w.req.tenant_id = t))

\* ---- queued requests are drained

\* a step that takes a request out of t's queue takes its head and starts exactly
\* one worker for it
DequeueStartsOneWorker(t) ==
    Len(tenant_queues'[t]) < Len(tenant_queues[t]) =>
        /\ tenant_queues'[t] = Tail(tenant_queues[t])
        /\ BagCardinality(workers') = BagCardinality(workers) + 1
        /\ \E w \in BagToSet(workers') :
              /\ w.req = Head(tenant_queues[t]) /\ w.pc = "run"
              /\ CopiesIn(w, workers') = CopiesIn(w, workers) + 1

\* a worker leaves "run" only by handing a PROCESSED result to the callback, and
\* a worker ends only after that
WorkerCallsBackOnce ==
    /\ \A w \in BagToSet(workers) :
          (w.pc = "run" /\ CopiesIn(w, workers') < CopiesIn(w, workers)) =>
              /\ BagCardinality(workers') = BagCardinality(workers)
              /\ \E w2 \in BagToSet(workers') :
                    Delivers(w, w2) /\ w2.res.status = PROCESSED /\ w2.res.allowed
    /\ BagCardinality(workers') < BagCardinality(workers) =>
          \E w \in BagToSet(workers) :
              w.pc = "release" /\ workers' = workers (-) SetToBag({w})

NoEnqueue == \A t \in Tenants : Len(tenant_queues'[t]) <= Len(tenant_queues[t])

OnlySchedulerAcquires ==
    global_in_flight' > global_in_flight =>
        BagCardinality(workers') > BagCardinality(workers)

Drained(t) ==
    /\ tenant_queues[t] = <<>>
    /\ \A w \in BagToSet(workers) : w.req.tenant_id = t => w.pc = "release"

\* C11: every request taken out of a queue gets exactly one worker, which calls
\* the callback exactly once, with a PROCESSED result; and with the scheduler
\* running, the enqueues over, slots free again and again and left to the
\* scheduler, a non-empty queue is eventually empty with every one of its
\* requests called back.
C11_QueuedRequestIsDrained ==
    /\ [][(\A t \in Tenants : DequeueStartsOneWorker(t)) /\ WorkerCallsBackOnce]_vars
    /\ \A t \in Tenants :
          ( /\ []~shutdown_flag
            /\ <>[][NoEnqueue]_vars
            /\ <>[][OnlySchedulerAcquires]_vars
            /\ []<>(global_in_flight < max_global_concurrent_requests) )
            => ((tenant_queues[t] # <<>>) ~> Drained(t))

\* a request that was queued at a full gate has been called back after a direct
\* release freed the slot, and its tenant's queue is empty again
C11_Witness ==
    /\ releases_left < MaxDirectReleases
    /\ \E w \in BagToSet(workers) :
          /\ w.pc = "release" /\ w.res.status = PROCESSED
          /\ tenant_queues[w.req.tenant_id] = <<>>
    /\ \E t \in Tenants : tenant_in_flight[t] > 0 /\ \A w \in BagToSet(workers) : w.req.tenant_id # t

\* ---- shutdown

\* C12: a call that starts after shutdown() returns REJECTED.
C12_RejectedAfterShutdown ==
    \A th \in Threads :
        (Returned(th) /\ saw[th].shutdown) => result[th].status = REJECTED

\* C13: a request still waiting in a queue after shutdown() is eventually
\* resolved; the least that takes is that it leaves the queue.  Slots are free
\* again and again, so nothing but the shutdown keeps it waiting.
C13_QueuedResolvedAfterShutdown ==
    \A t \in Tenants :
        []<>(global_in_flight < max_global_concurrent_requests)
          => ((shutdown_flag /\ tenant_queues[t] # <<>>) ~> (tenant_queues[t] = <<>>))

\* ---- gate saturation

StatusCount(status) ==
    Cardinality({th \in GateSaturationThreads : result[th].status = status})

\* C14: when the three calls have returned, exactly one returned PROCESSED, at
\* most one QUEUED and the others REJECTED.
C14_GateSaturationOutcomes ==
    (\A th \in GateSaturationThreads : Returned(th)) =>
        /\ StatusCount(PROCESSED) = 1
        /\ StatusCount(QUEUED) <= 1
        /\ StatusCount(REJECTED) = 3 - StatusCount(PROCESSED) - StatusCount(QUEUED)

\* ---- SlidingWindowLog.get_status

StatusKey(st) == <<st.tenant_id, st.client_id, st.action_type>>

\* a get_status call returns in this step
StatusReturns == last_status' # NoStatus /\ last_status' # last_status

\* C15: get_status leaves the timestamp sequence of every key as it was, stale
\* entries included.
C15_StatusLeavesLogs ==
    [][StatusReturns => request_logs' = request_logs]_vars

\* a status answer that left out a stale entry which is still stored
C15_Witness ==
    /\ last_status # NoStatus
    /\ Len(last_status.timestamps) < Len(request_logs[StatusKey(last_status)])

\* no timestamp of the log is inside the window of one call and outside that of the other
NoCrossing(log, st1, st2) ==
    \A i \in 1..Len(log) :
        (log[i] > st1.window_start) <=> (log[i] > st2.window_start)

\* C16: a get_status call that follows another one on the same key and policy,
\* with no check_and_consume in between and no timestamp crossing the window
\* boundary, returns the same current_count, remaining_requests and timestamps.
C16_StatusIdempotent ==
    [][( /\ last_status # NoStatus /\ last_status' # NoStatus
         /\ StatusKey(last_status') = StatusKey(last_status)
         /\ last_status'.max_requests = last_status.max_requests
         /\ last_status'.window_duration_seconds = last_status.window_duration_seconds
         /\ NoCrossing(request_logs[StatusKey(last_status)], last_status, last_status') )
        => /\ last_status'.current_count = last_status.current_count
           /\ last_status'.remaining_requests = last_status.remaining_requests
           /\ last_status'.timestamps = last_status.timestamps]_vars

\* a status answer given at a later clock value than the admission it reports,
\* for a log that also holds a stale entry
C16_Witness ==
    /\ last_status # NoStatus
    /\ last_status.current_count > 0
    /\ last_status.current_count < Len(request_logs[StatusKey(last_status)])
    /\ last_status.current_time < now

\* C17: a get_status answer and a check_and_consume at the same clock value,
\* with no traffic in between, agree: the status count is the count
\* check_and_consume finds after pruning, the call is allowed iff the status
\* shows remaining > 0, and then returns one less than the status shows.
C17_StatusAgreesWithConsume ==
    (last_status # NoStatus /\ last_status.current_time = now) =>
        LET k == StatusKey(last_status)
            N == last_status.max_requests
            W == last_status.window_duration_seconds
            call == CheckAndConsume(request_logs[k], N, W, now)
        IN  /\ last_status.current_count = Len(Prune(request_logs[k], now - W * Scale))
            /\ call.result.allowed <=> (last_status.remaining_requests > 0)
            /\ call.result.allowed =>
                  call.result.remaining_requests = last_status.remaining_requests - 1

\* a status answer at the current clock value for a log whose oldest entry is
\* exactly one window old, with room left under the policy
C17_Witness ==
    /\ last_status # NoStatus /\ last_status.current_time = now
    /\ request_logs[StatusKey(last_status)] # <<>>
    /\ Head(request_logs[StatusKey(last_status)]) = last_status.window_start
    /\ last_status.current_count > 0
    /\ last_status.remaining_requests > 0

\* ---- SlidingWindowLog.check_and_consume, call by call

\* a direct check_and_consume call returns in this step
CallReturns == last_call' # last_call \/ request_logs' # request_logs

InWindowCount(log, window_start) ==
    Cardinality({i \in 1..Len(log) : log[i] > window_start})

\* C19: with count the in-window count of the key before the call, a call is
\* allowed with remaining = max_requests - count - 1 when count < max_requests
\* and denied with remaining 0 otherwise, and an allowed call raises the count
\* by one: on a fresh key, N + 1 calls inside one window return N - 1, ..., 0
\* and then a denial.
C19_RemainingCountsDown ==
    [][CallReturns =>
         LET c == last_call'
             N == c.max_requests
             window_start == now - c.window_duration_seconds * Scale
             count == InWindowCount(request_logs[c.key], window_start)
             count_after == InWindowCount(request_logs'[c.key], window_start)
         IN  /\ c.result.status = PROCESSED
             /\ count < N => /\ c.result.allowed
                             /\ c.result.remaining_requests = N - count - 1
                             /\ count_after = count + 1
             /\ count >= N => /\ ~c.result.allowed
                              /\ c.result.remaining_requests = 0
                              /\ count_after = count]_vars

\* call N + 1 inside one window under policy (2, 1) is denied with remaining 0
C19_Witness ==
    /\ last_call.max_requests = 2 /\ last_call.window_duration_seconds = 1
    /\ ~last_call.result.allowed /\ last_call.result.remaining_requests = 0
    /\ last_call.current_time = now
    /\ Len(request_logs[last_call.key]) = 2
    /\ request_logs[last_call.key][1] < request_logs[last_call.key][2]

\* the oldest timestamp of log inside the window (log holds one)
OldestInWindow(log, window_start) ==
    LET inside == {log[i] : i \in {j \in 1..Len(log) : log[j] > window_start}}
    IN  CHOOSE ts \in inside : \A other \in inside : ts <= other

\* the reset times the claim names, for the call that returns in this step
ResetTimeAsStated(c) ==
    LET W == c.window_duration_seconds
        window_start == now - W * Scale
        log == request_logs[c.key]
    IN  /\ c.result.allowed => c.result.reset_time_seconds = IntSeconds(now + W * Scale)
        /\ ~c.result.allowed =>
              /\ InWindowCount(log, window_start) > 0
              /\ c.result.reset_time_seconds =
                    IntSeconds(OldestInWindow(log, window_start) + W * Scale)

\* C20 as stated: the reset time is floor(now + window) when allowed and
\* floor(oldest in-window timestamp + window) when denied, and a denied call's
\* reset time is not earlier than the current time.
C20_ResetTimeNotBeforeNow ==
    [][CallReturns =>
         /\ ResetTimeAsStated(last_call')
         /\ ~last_call'.result.allowed =>
               last_call'.result.reset_time_seconds * Scale >= now]_vars

\* C20 as amended: the same reset times; a denied call's reset time is not
\* earlier than the current time rounded down to a whole second.
C20_ResetTimeNotBeforeThisSecond ==
    [][CallReturns =>
         /\ ResetTimeAsStated(last_call')
         /\ ~last_call'.result.allowed =>
               last_call'.result.reset_time_seconds >= IntSeconds(now)]_vars

\* a call denied inside a second: its reset time is that second, already begun
C20_Witness ==
    /\ ~last_call.result.allowed
    /\ last_call.result.status = PROCESSED
    /\ last_call.current_time = now
    /\ last_call.result.reset_time_seconds = IntSeconds(now)
    /\ last_call.result.reset_time_seconds * Scale < now

\* ---- window expiry

\* the admissions of key k that count at time now for window W: those recorded
\* at a time t > now - W
CountingAdmissions(k, W) ==
    Cardinality({i \in 1..Len(admitted[k]) : admitted[k][i] > now - W * Scale})

\* a call made now on key k with policy (N, W) is allowed exactly when fewer
\* than N admissions count
DecidedByCountingAdmissions(k, N, W) ==
    CheckAndConsume(request_logs[k], N, W, now).result.allowed
        <=> (CountingAdmissions(k, W) < N)

\* C21: an admission recorded at t counts against a call with window W made at
\* now iff t > now - W: the call is allowed exactly when fewer than N such
\* admissions exist.
C21_StrictExpiry ==
    \A k \in HistoryKeys : \A N \in Limits, W \in Windows :
        DecidedByCountingAdmissions(k, N, W)

\* ---- concurrent calls

\* the threads whose call on key k has returned
DoneOn(k) == {th \in ConcurrentThreads : swl_calls[th].pc = "done" /\ swl_calls[th].key = k}

Min(a, b) == IF a < b THEN a ELSE b

\* C22: of the n concurrent calls on one fresh key with policy (N, W) that have
\* returned, inside one window, exactly min(n, N) returned allowed = true and the
\* others allowed = false.
C22_LinearizablePerKey ==
    \A k \in Keys, N \in Limits :
        (\A th \in DoneOn(k) : swl_calls[th].max_requests = N) =>
            /\ Cardinality({th \in DoneOn(k) : swl_calls[th].result.allowed})
                  = Min(Cardinality(DoneOn(k)), N)
            /\ Cardinality({th \in DoneOn(k) : ~swl_calls[th].result.allowed})
                  = Cardinality(DoneOn(k)) - Min(Cardinality(DoneOn(k)), N)

\* three threads were in the call at once on one key with policy (2, 1): one of
\* them was denied
C22_Witness ==
    \E k \in Keys :
        /\ Cardinality(DoneOn(k)) = 3
        /\ \A th \in DoneOn(k) : swl_calls[th].max_requests = 2
        /\ \E th \in DoneOn(k) : ~swl_calls[th].result.allowed

\* ---- the facade under load

AllowedCount == Cardinality({th \in UnderLoadThreads : result[th].allowed})

AllReturned == \A th \in UnderLoadThreads : Returned(th)

\* C23 as stated: when the n >= max_requests concurrent calls on one fresh key
\* have returned, exactly max_requests of them returned allowed = true and the
\* others allowed = false.
C23_ExactlyMaxRequestsAllowed ==
    AllReturned => AllowedCount = UnderLoadLimit

\* C23 as amended: the same when the gate is at least as wide as the rate limit.
C23_ExactlyMaxRequestsAllowedAtWideGate ==
    (AllReturned /\ max_global_concurrent_requests >= UnderLoadLimit)
        => /\ AllowedCount = UnderLoadLimit
           /\ \A th \in UnderLoadThreads :
                 result[th].status \in {PROCESSED, QUEUED, REJECTED}

\* at a gate as wide as the rate limit, two calls were admitted and the third
\* found the gate full and was queued
C23_Witness ==
    /\ AllReturned
    /\ max_global_concurrent_requests >= UnderLoadLimit
    /\ \E th \in UnderLoadThreads : result[th].status = QUEUED

\* C24: a call on a key that has fewer than max_requests in-window admissions
\* returns allowed = true, also while calls on other keys occupy the gate.  (The
\* clock stands still here and counts only grow: a key below its limit when the
\* call has returned was below it during the call.)
C24_AllowedWhileBelowLimit ==
    \A th \in Threads :
        ( /\ Returned(th)
          /\ \A th2 \in Threads \ {th} : args[th2].key # args[th].key
          /\ InWindowCount(request_logs[args[th].key],
                           now - args[th].window_duration_seconds * Scale)
                < args[th].max_requests )
        => result[th].allowed

\* ---- acquire_processing_slot

\* the calls that were granted a slot and still hold it
Granted == {th \in UnderLoadThreads : HoldsSlot(th)}

\* no slot has been given back yet: no call has got past its release and nothing
\* was dispatched from a queue
NoReleaseYet ==
    /\ \A th \in UnderLoadThreads : Returned(th) => result[th].status \in {QUEUED, REJECTED}
    /\ workers = EmptyBag
    /\ global_in_flight = Cardinality(Granted)

\* C25: acquire_processing_slot returns true iff global_in_flight < G when it is
\* called, and then adds one to both counters (and changes nothing otherwise);
\* of n concurrent calls from an empty gate with no release, exactly min(n, G)
\* are granted.
C25_AcquireGrantsBelowGate ==
    /\ [][\A th \in UnderLoadThreads : (pc[th] = "idle" /\ pc'[th] # "idle") =>
            LET t == args'[th].key[1]
            IN  /\ (pc'[th] = "sliding_window")
                      <=> (global_in_flight < max_global_concurrent_requests)
                /\ pc'[th] = "sliding_window" =>
                      /\ global_in_flight' = global_in_flight + 1
                      /\ tenant_in_flight' = [tenant_in_flight EXCEPT ![t] = @ + 1]
                /\ pc'[th] # "sliding_window" => UNCHANGED gateVars]_vars
    /\ [](NoReleaseYet =>
            Cardinality(Granted)
               = Min(Cardinality({th \in UnderLoadThreads : pc[th] # "idle"}),
                     max_global_concurrent_requests))

\* three calls from an empty gate of width 2 with no release: two hold a slot,
\* the third was refused
C25_Witness ==
    /\ NoReleaseYet
    /\ max_global_concurrent_requests = 2
    /\ Cardinality(Granted) = 2
    /\ \E th \in UnderLoadThreads : pc[th] = "queue"

\* ---- queue_request

\* C26: queue_request on a tenant whose queue holds Q entries returns false and
\* leaves all queues and the in-flight counters as they were; on a tenant whose
\* queue is not full it returns true and appends to that tenant's queue only,
\* whatever the other tenants' queues hold.
C26_FullQueueRejectsOnlyItsTenant ==
    [][\A th \in Threads : (pc[th] = "queue" /\ pc'[th] = "returned") =>
          LET t == args[th].key[1]
          IN  /\ UNCHANGED gateVars
              /\ \A u \in Tenants \ {t} : tenant_queues'[u] = tenant_queues[u]
              /\ Len(tenant_queues[t]) >= max_tenant_queue_size =>
                    /\ result'[th].status = REJECTED
                    /\ tenant_queues'[t] = tenant_queues[t]
              /\ Len(tenant_queues[t]) < max_tenant_queue_size =>
                    /\ result'[th].status = QUEUED
                    /\ Len(tenant_queues'[t]) = Len(tenant_queues[t]) + 1
                    /\ SubSeq(tenant_queues'[t], 1, Len(tenant_queues[t]))
                          = tenant_queues[t]]_vars

\* one call was rejected at its tenant's full queue and a call of the other
\* tenant was queued while that queue was still full
C26_Witness ==
    \E th1, th2 \in Threads :
        /\ Returned(th1) /\ result[th1].status = REJECTED
        /\ Returned(th2) /\ result[th2].status = QUEUED
        /\ args[th1].key[1] # args[th2].key[1]
        /\ Len(tenant_queues[args[th1].key[1]]) = max_tenant_queue_size
        /\ Len(tenant_queues[args[th2].key[1]]) = 1

\* ---- a lowered bound

\* C27: when a call on a key passes a lower max_requests than the call before
\* it, the new bound decides that very call: with an in-window count at or
\* above it the call is denied and the surplus entries stay in the log; a call
\* is admitted only with a count below the new bound.
C27_LoweredBoundAppliesAtOnce ==
    [][(CallReturns /\ last_call.key = last_call'.key
                    /\ last_call.max_requests > last_call'.max_requests) =>
         LET c == last_call'
             window_start == now - c.window_duration_seconds * Scale
             log == request_logs[c.key]
             count == InWindowCount(log, window_start)
         IN  /\ count >= c.max_requests =>
                   /\ ~c.result.allowed /\ c.result.remaining_requests = 0
                   /\ request_logs'[c.key] = ValidTimestamps(log, window_start)
             /\ c.result.allowed =>
                   /\ count < c.max_requests
                   /\ request_logs'[c.key]
                         = Append(ValidTimestamps(log, window_start), now)]_vars

\* a call with the bound lowered to 1 was denied and the log still holds the
\* two entries admitted under the bound 2
C27_Witness ==
    /\ last_call.max_requests = 1
    /\ ~last_call.result.allowed
    /\ last_call.current_time = now
    /\ Len(request_logs[last_call.key]) = 2

\* ---------------------------------------------------------------- C28
\* a request the route has to accept: a JSON object holding the five fields, both
\* bounds positive integers, no identifier blank
PassesValidation(body) ==
    /\ body.is_json
    /\ body.json = "object"
    /\ DOMAIN body.fields = FieldNames
    /\ \A f \in {"max_requests", "window_duration_seconds"} :
           PyInt(body.fields[f]).raises = "" /\ PyInt(body.fields[f]).value > 0
    /\ \A f \in {"tenant_id", "client_id", "action_type"} : PyStrip(body.fields[f]) # ""

\* the handler thread th takes up a request in this step
RouteTakesRequest(th) == pc[th] = "idle" /\ http[th].code # 0 /\ http'[th] # http[th]

\* the handler thread th answers a request the limiter has decided in this step
RouteAnswersResult(th) == http[th].code = 0 /\ pc[th] = "returned" /\ http'[th].code # 0

\* C28: the route answers 200 to an allowed PROCESSED result, 429 to a denied
\* PROCESSED result, 202 to QUEUED and 429 to REJECTED; a request that fails
\* validation is answered 400 and leaves the state of the limiter as it was.
C28_RouteResponseCodes ==
    [][\A th \in Threads :
         /\ RouteAnswersResult(th) =>
               http'[th].code =
                  CASE result[th].status = PROCESSED /\ result[th].allowed -> 200
                    [] result[th].status = PROCESSED /\ ~result[th].allowed -> 429
                    [] result[th].status = QUEUED -> 202
                    [] result[th].status = REJECTED -> 429
         /\ RouteTakesRequest(th) /\ ~PassesValidation(http'[th].body) =>
               /\ http'[th].code = 400
               /\ UNCHANGED <<swlVars, gateVars, queueVars, callVars>>]_vars

\* ---------------------------------------------------------------- C29
\* a get_rate_limit_config call returns in this step
LookupReturns == config_lookup' # NoLookup /\ tenant_configs' = WithTenant(tenant_configs, config_lookup'.target[1])
                   /\ UNCHANGED <<last_set_action, last_set_client>>

\* C29: get_rate_limit_config(tenant, client, action) returns the client limit last
\* set for (tenant, client, action) if one is present, otherwise the action limit
\* last set for (tenant, action) if one is present, otherwise None; after a client
\* limit is removed the lookup falls back to the action limit.
C29_LookupPrecedence ==
    [][LookupReturns =>
         LET tca == config_lookup'.target
         IN  config_lookup'.returned =
               IF last_set_client[tca] # NoConfig THEN last_set_client[tca]
               ELSE IF last_set_action[<<tca[1], tca[3]>>] # NoConfig
                    THEN last_set_action[<<tca[1], tca[3]>>]
               ELSE NoConfig]_vars

\* a client limit was removed and the lookup that followed returned the action
\* limit, while another client limit with a different value is in place
C29_Witness ==
    /\ config_lookup # NoLookup
    /\ last_removed = config_lookup.target
    /\ config_lookup.returned # NoConfig
    /\ config_lookup.returned = last_set_action[<<config_lookup.target[1], config_lookup.target[3]>>]
    /\ \E tca \in ConfigTargets :
          /\ tca # config_lookup.target
          /\ last_set_client[tca] \notin {NoConfig, config_lookup.returned}

\* ---------------------------------------------------------------- C30
\* C30: after a check_and_consume call on key K with window W made at time now,
\* the log of K holds no timestamp <= now - W, whatever windows the earlier
\* calls on K used.
C30_NoStaleTimestampAfterCall ==
    [][CallReturns =>
         LET c == last_call'
             log == request_logs'[c.key]
         IN  \A i \in 1..Len(log) :
                log[i] > c.current_time - c.window_duration_seconds * Scale]_vars

\* a call with the short window dropped a stale timestamp and left a log of two,
\* one of them older than the call
C30_Witness ==
    /\ last_call.current_time = now
    /\ last_call.window_duration_seconds = 1
    /\ last_call.pruned = 1
    /\ Len(request_logs[last_call.key]) = 2
    /\ Head(request_logs[last_call.key]) < now

\* ---------------------------------------------------------------- C31
\* the background thread starts the worker of a dequeued request in this step
WorkerStarted == fsched.pc = "start" /\ fsched'.pc = "break"

\* C31: at the moment the background thread starts the worker of a dequeued
\* request it is inside no tenant queue lock and not inside the gate lock.
C31_NoLockHeldAtDispatch ==
    [][WorkerStarted => \A l \in LockNames : lock_holder[l] # "sched"]_vars

\* ---------------------------------------------------------------- C32
\* the lock the next statement of a thread enters
LockWantedBy(who) ==
    IF who = "sched" THEN SchedLockWanted
    ELSE IF who \in LockThreads THEN CallLockWanted(who)
    ELSE "none"

\* who can go on: the lock it wants is free, or is held by a thread that can go
\* on itself (the chain of holders is followed for at most depth threads)
RECURSIVE CanProceed(_, _)
CanProceed(who, depth) ==
    IF CanEnter(LockWantedBy(who)) THEN TRUE
    ELSE IF depth = 0 THEN FALSE
    ELSE CanProceed(lock_holder[LockWantedBy(who)], depth - 1)

LockUsers == {"sched"} \cup LockThreads

NoThreadWaitsInACycle ==
    /\ \A who \in LockUsers : CanProceed(who, Cardinality(LockUsers))
    /\ (\E w \in BagToSet(workers) : w.pc = "release") /\ ~CanEnter("global") =>
          CanProceed(lock_holder["global"], Cardinality(LockUsers))

TenantLocksOneAtATime ==
    \A t, u \in Tenants :
       t # u /\ lock_holder[t] # "free" => lock_holder[u] # lock_holder[t]

TenantLockBeforeGateLock ==
    \A t \in Tenants :
       lock_holder'[t] # lock_holder[t] /\ lock_holder'[t] # "free" =>
          lock_holder["global"] # lock_holder'[t]

\* C32: every thread takes a tenant queue lock before the gate lock and never the
\* other way round, no thread is inside two tenant queue locks at once, and no
\* reachable state of concurrent check_and_consume, get_status and queue_request
\* calls with the background thread has threads waiting for each other's locks.
C32_LockOrderNoDeadlock ==
    /\ [](TenantLocksOneAtATime /\ NoThreadWaitsInACycle)
    /\ [][TenantLockBeforeGateLock]_vars

\* the background thread, inside a tenant's queue lock, waits for the gate lock
\* that a caller is inside, while another caller waits for that tenant's lock
C32_Witness ==
    /\ fsched.pc = "acquire"
    /\ lock_holder["global"] \in LockThreads
    /\ \E th \in LockThreads :
          /\ lm_calls[th].pc \in {"queue", "status_lock"}
          /\ lock_holder[lm_calls[th].key[1]] = "sched"

\* ---------------------------------------------------------------- C33
\* the background thread leaves the queue lock of tenant t in this step
SchedLeaves(t) == lock_holder[t] = "sched" /\ lock_holder'[t] = "free"

\* C33: between entering and leaving a tenant's queue lock the background thread
\* either acquires exactly one slot and dequeues exactly one request, the head
\* of that tenant's queue, or acquires no slot and leaves the queue as it was.
C33_SchedulerStepAllOrNothing ==
    [][\A t \in Tenants :
         SchedLeaves(t) =>
            \/ /\ fsched.got = 1
               /\ fsched.popped = 1
               /\ fsched.q0 # <<>>
               /\ fsched.req = Head(fsched.q0)
               /\ tenant_queues[t] = Tail(fsched.q0)
            \/ /\ fsched.got = 0
               /\ fsched.popped = 0
               /\ tenant_queues[t] = fsched.q0]_vars

\* a visit has acquired a slot and dequeued a request while a caller waits to
\* append to the same queue
C33_Witness ==
    /\ fsched.pc = "break"
    /\ fsched.got = 1
    /\ fsched.popped = 1
    /\ \E th \in LockThreads :
          lm_calls[th].pc = "queue" /\ lm_calls[th].key[1] = fsched.req.tenant_id

\* ---------------------------------------------------------------- C34
\* a worker that leaves "run" goes on to its release, whether the callback
\* returned or raised; a worker ends only by its one release_processing_slot call
\* for the tenant of its request
WorkerReleasesOnce ==
    /\ \A w \in BagToSet(workers) :
          (w.pc = "run" /\ CopiesIn(w, workers') < CopiesIn(w, workers)) =>
              /\ BagCardinality(workers') = BagCardinality(workers)
              /\ \E w2 \in BagToSet(workers') :
                    /\ w2.req = w.req /\ w2.pc = "release"
                    /\ CopiesIn(w2, workers') = CopiesIn(w2, workers) + 1
    /\ BagCardinality(workers') < BagCardinality(workers) =>
          \E w \in BagToSet(workers) :
              /\ w.pc = "release"
              /\ workers' = workers (-) SetToBag({w})
              /\ release_processing_slot(w.req.tenant_id)

\* C34: the worker of a dispatched request calls release_processing_slot for its
\* tenant exactly once when it finishes, also when the completion callback
\* raises; once no further request is enqueued, every started worker has
\* released in the end.
C34_WorkerAlwaysReleases ==
    /\ [][WorkerReleasesOnce]_vars
    /\ (<>[][NoEnqueue]_vars) => <>[](workers = EmptyBag)

\* a worker whose callback raised (no result was delivered) is about to release
C34_Witness ==
    \E w \in BagToSet(workers) :
        /\ w.pc = "release"
        /\ w.res.status = "none"
        /\ tenant_in_flight[w.req.tenant_id] > 0

\* ---------------------------------------------------------------- C35
\* the threads that hold a slot: callers between acquire_processing_slot and
\* release_processing_slot, workers that have not released yet, and the
\* background thread between its acquire and the start of the worker
SlotHolders ==
    Cardinality({th \in LockThreads :
                    lm_calls[th].pc \in {"acquire2", "sliding_window", "release"}})
    + BagCardinality(workers)
    - Cardinality({w \in BagToSet(workers) : w.pc = "release2"})
    + (IF fsched.pc \in {"acquire2", "popleft", "start"} THEN 1 ELSE 0)

\* C35: when an iteration of the background thread has failed after acquiring a
\* slot and dequeuing a request, the thread goes on with its loop and the slot
\* has been given back: at the top of the loop global_in_flight counts only
\* slots that a caller or a worker holds.
C35_FailedIterationGivesSlotBack ==
    fsched.pc = "top" => global_in_flight = SlotHolders

\* ---------------------------------------------------------------- C36
\* queue_request accepts a request of tenant t in this step: it goes to the end
Accepted(t) ==
    Len(tenant_queues'[t]) > Len(tenant_queues[t]) =>
        /\ Len(tenant_queues'[t]) = Len(tenant_queues[t]) + 1
        /\ SubSeq(tenant_queues'[t], 1, Len(tenant_queues[t])) = tenant_queues[t]
        /\ tenant_queues'[t][Len(tenant_queues'[t])].timestamp = now

\* a request of tenant t is dequeued in this step: it is the one accepted first
\* of those waiting, nothing that waits was accepted before it, and it is gone
\* from the queue
DequeuedInOrder(t) ==
    Len(tenant_queues'[t]) < Len(tenant_queues[t]) =>
        LET r == Head(tenant_queues[t])
        IN  /\ tenant_queues'[t] = Tail(tenant_queues[t])
            /\ \A i \in 1..Len(tenant_queues'[t]) :
                  tenant_queues'[t][i].timestamp >= r.timestamp
            /\ \E w \in BagToSet(workers') :
                  w.req = r /\ CopiesIn(w, workers') = CopiesIn(w, workers) + 1

\* C36: within one tenant the requests are dispatched in the order in which
\* queue_request accepted them, and none is dequeued twice.
C36_FifoWithinTenant ==
    [][\A t \in Tenants : Accepted(t) /\ DequeuedInOrder(t)]_vars

\* the request accepted earlier has been dispatched while a request accepted
\* later still waits in the same tenant's queue
C36_Witness ==
    \E w \in BagToSet(workers) :
        /\ tenant_queues[w.req.tenant_id] # <<>>
        /\ Head(tenant_queues[w.req.tenant_id]).timestamp > w.req.timestamp

\* ---------------------------------------------------------------- C37
\* get_queue_status returns to thread th in this step
QueueStatusReturns(th) == lm_calls[th].pc = "status_global" /\ lm_calls'[th].pc = "idle"

\* C37: in every dict get_queue_status returns, in_flight_requests of the tenant
\* is at most global_in_flight, and global_in_flight is at most
\* max_global_concurrent, also while other threads are inside
\* acquire_processing_slot or release_processing_slot.
C37_QueueStatusSnapshotConsistent ==
    [][\A th \in LockThreads :
         QueueStatusReturns(th) =>
            /\ lm_calls[th].in_flight <= global_in_flight
            /\ global_in_flight <= max_global_concurrent_requests]_vars

\* ---------------------------------------------------------------- C38
\* the timestamps of the admissions of key k made with policy (N, W)
AdmittedWith(k, N, W) ==
    LET a == SelectSeq(admitted_by[k],
                       LAMBDA e : e.max_requests = N /\ e.window_duration_seconds = W)
    IN  [i \in 1..Len(a) |-> a[i].timestamp]

\* C38: among the calls on key K made with policy (N, W), no window of length W
\* holds more than N admissions, whatever windows the other calls on K pass.
C38_BoundHoldsUnderMixedWindows ==
    \A k \in HistoryKeys : \A N \in Limits, W \in Windows :
        \A s \in (0 - W * Scale)..now :
            WindowCount(AdmittedWith(k, N, W), s, W * Scale) <= N

\* ---------------------------------------------------------------- C39
\* C39: once shutdown() has returned, no request leaves a queue any more: every
\* queue keeps its entries, whatever statement the background thread was at when
\* the flag was set.
C39_NoDispatchAfterShutdown ==
    [][shutdown_flag =>
         /\ \A t \in Tenants : Len(tenant_queues'[t]) >= Len(tenant_queues[t])
         /\ BagCardinality(workers') <= BagCardinality(workers)]_vars

\* ---------------------------------------------------------------- C40
\* thread th executes a statement of DistributedRateLimiter.get_status in this step
StatusStep(th) ==
    /\ lm_calls[th].pc \in {"status_lock", "status_queue", "status_tenant", "status_global"}
    /\ lm_calls'[th] # lm_calls[th]

\* C40: get_status changes neither the in-flight counters, nor the contents of
\* any queue, nor the order in which the background thread scans the tenants,
\* also for a tenant never seen before.
C40_StatusHasNoAdmissionEffect ==
    [][\A th \in LockThreads :
         StatusStep(th) =>
            UNCHANGED <<global_in_flight, tenant_in_flight, tenant_queues, queue_keys>>]_vars

====
